---- MODULE Spec2Model ----
(***************************************************************************)
(* Model of the easyggs Go service: the board (types.ts), the heuristic    *)
(* move selection NPCAI (npcAI.ts) and the self-play loop simulateNPCGame  *)
(* of the server (server.ts).                                              *)
(*                                                                         *)
(* Coordinates are zero-based <<row, col>> inside the model, as inside the *)
(* code; the positions returned by calculateMove and recorded in a move    *)
(* are one-based, as in the code.                                          *)
(*                                                                         *)
(* Scores are kept in quarter points (source score * 4) so that the        *)
(* weights 2.5 and 0.5 and the jitter stay integral.                       *)
(***************************************************************************)
EXTENDS Integers, Sequences, FiniteSets, TLC

VARIABLES
    board,          \* the Board object: [width, height, stones]
    currentColor,   \* colour to move / the colour argument of calculateMove
    moveCount,      \* simulateNPCGame: moveCount
    maxMoves,       \* simulateNPCGame: the maxMoves argument
    koPosition,     \* simulateNPCGame: koPosition (NoKo = undefined), one-based
    moves,          \* simulateNPCGame: moves, the GameMove records pushed so far
    pc,             \* position in the program
    endReason,      \* DemoGame.endReason ("" until the game returns)
    result,         \* value returned by the last calculateMove / getNPCMoveWithKo
    request,        \* req.query of an HTTP request: [board, size] (strings)
    page            \* the demo page's script: [gameData, currentMoveIndex,
                    \* isPlaying, playbackInterval, playbackSpeed] and the
                    \* interval timers of its window

vars == <<board, currentColor, moveCount, maxMoves, koPosition, moves, pc,
          endReason, result, request, page>>

---------------------------------------------------------------------------
(* types.ts *)

NONE == 0
BLACK == 1
WHITE == 2

Stones == {NONE, BLACK, WHITE}
Colors == {"black", "white"}

Cells(w, h) == (0 .. h - 1) \X (0 .. w - 1)

\* new Board(width, height)
NewBoard(w, h) ==
    [width |-> w, height |-> h, stones |-> [p \in Cells(w, h) |-> NONE]]

IsValidPosition(b, row, col) ==
    row >= 0 /\ row < b.height /\ col >= 0 /\ col < b.width

GetStone(b, row, col) ==
    IF row < 0 \/ row >= b.height \/ col < 0 \/ col >= b.width
    THEN NONE
    ELSE b.stones[<<row, col>>]

SetStone(b, row, col, stone) ==
    IF row >= 0 /\ row < b.height /\ col >= 0 /\ col < b.width
    THEN [b EXCEPT !.stones[<<row, col>>] = stone]
    ELSE b

IsEmpty(b, row, col) == GetStone(b, row, col) = NONE

\* const directions = [[-1, 0], [1, 0], [0, -1], [0, 1]]
Directions == << <<-1, 0>>, <<1, 0>>, <<0, -1>>, <<0, 1>> >>

\* The i-th neighbour [row + dr, col + dc] of the directions array
Dir(row, col, i) == <<row + Directions[i][1], col + Directions[i][2]>>

Abs(x) == IF x < 0 THEN -x ELSE x
Min(x, y) == IF x < y THEN x ELSE y
Max(x, y) == IF x > y THEN x ELSE y

---------------------------------------------------------------------------
(* npcAI.ts: groups and liberties (recursive flood fills) *)

\* floodFillLiberties: st = [visited, liberties], both sets of cells
RECURSIVE FloodFillLiberties(_, _, _, _, _)
FloodFillLiberties(b, row, col, stone, st) ==
    IF <<row, col>> \in st.visited \/ ~IsValidPosition(b, row, col)
    THEN st
    ELSE LET s0 == [st EXCEPT !.visited = @ \cup {<<row, col>>}]
         IN  IF GetStone(b, row, col) = NONE
             THEN [s0 EXCEPT !.liberties = @ \cup {<<row, col>>}]
             ELSE IF GetStone(b, row, col) # stone
             THEN s0
             ELSE LET s1 == FloodFillLiberties(b, row - 1, col, stone, s0)
                      s2 == FloodFillLiberties(b, row + 1, col, stone, s1)
                      s3 == FloodFillLiberties(b, row, col - 1, stone, s2)
                  IN  FloodFillLiberties(b, row, col + 1, stone, s3)

\* Mutant: the Empty neighbours of the one stone, without the flood fill
CountLibertiesOfStone(b, row, col, stone) ==
    Cardinality({i \in 1 .. 4 :
                    LET a == Dir(row, col, i)
                    IN  IsValidPosition(b, a[1], a[2]) /\ GetStone(b, a[1], a[2]) = NONE})

CountLiberties(b, row, col, stone) ==
    Cardinality(FloodFillLiberties(b, row, col, stone,
                                   [visited |-> {}, liberties |-> {}]).liberties)

\* floodFillGroup: st = [visited, size]; size accumulates the return values
RECURSIVE FloodFillGroup(_, _, _, _, _)
FloodFillGroup(b, row, col, stone, st) ==
    IF \/ <<row, col>> \in st.visited
       \/ ~IsValidPosition(b, row, col)
       \/ GetStone(b, row, col) # stone
    THEN st
    ELSE LET s0 == [visited |-> st.visited \cup {<<row, col>>}, size |-> st.size + 1]
             s1 == FloodFillGroup(b, row - 1, col, stone, s0)
             s2 == FloodFillGroup(b, row + 1, col, stone, s1)
             s3 == FloodFillGroup(b, row, col - 1, stone, s2)
         IN  FloodFillGroup(b, row, col + 1, stone, s3)

GetGroupSize(b, row, col, stone) ==
    FloodFillGroup(b, row, col, stone, [visited |-> {}, size |-> 0]).size

---------------------------------------------------------------------------
(* npcAI.ts: the features of evaluateMove                                   *)

\* getPositionScore (source points)
GetPositionScore(b, row, col) ==
    LET boardSize == Min(b.width, b.height)
    IN  IF (row = 0 \/ row = b.height - 1) /\ (col = 0 \/ col = b.width - 1)
        THEN (IF boardSize > 9 THEN 8 ELSE 4)
        ELSE IF row = 0 \/ row = b.height - 1 \/ col = 0 \/ col = b.width - 1
        THEN (IF boardSize > 9 THEN 4 ELSE 2)
        ELSE LET centerRow == b.height \div 2
                 centerCol == b.width \div 2
                 distanceFromCenter == Abs(row - centerRow) + Abs(col - centerCol)
             IN  Max(0, (boardSize \div 3) - distanceFromCenter)

\* checkOpponentConnections (source points)
CheckOpponentConnections(b, row, col, opponentRow, opponentCol, opponentStone) ==
    LET Term(i) ==
            LET q == Dir(opponentRow, opponentCol, i)
            IN  IF /\ IsValidPosition(b, q[1], q[2])
                   /\ GetStone(b, q[1], q[2]) = opponentStone
                   /\ (q[1] # row \/ q[2] # col)
                THEN 8 ELSE 0
    IN  Term(1) + Term(2) + Term(3) + Term(4)

\* getBlockingScore (source points)
GetBlockingScore(b, row, col, playerStone, opponentStone) ==
    LET Term(i) ==
            LET a == Dir(row, col, i)
            IN  IF /\ IsValidPosition(b, a[1], a[2])
                   /\ GetStone(b, a[1], a[2]) = opponentStone
                THEN LET opponentLiberties == CountLiberties(b, a[1], a[2], opponentStone)
                         opponentGroupSize == GetGroupSize(b, a[1], a[2], opponentStone)
                     IN  (IF opponentLiberties > 2 /\ opponentGroupSize >= 2
                          THEN 10 ELSE 0)
                         + CheckOpponentConnections(b, row, col, a[1], a[2], opponentStone)
                ELSE 0
    IN  Term(1) + Term(2) + Term(3) + Term(4)

\* The cells r0..r1 x c0..c1 in the order of the two nested for loops
BoxCells(r0, r1, c0, c1) ==
    IF r1 < r0 \/ c1 < c0 THEN << >>
    ELSE LET n == c1 - c0 + 1
         IN  [k \in 1 .. (r1 - r0 + 1) * n |->
                 <<r0 + ((k - 1) \div n), c0 + ((k - 1) % n)>>]

\* The loop of getTerritoryScore: acc = [friendly, enemy, empty]
RECURSIVE TerritoryLoop(_, _, _, _, _, _, _, _)
TerritoryLoop(b, row, col, playerStone, opponentStone, cells, k, acc) ==
    IF k > Len(cells) THEN acc
    ELSE LET r == cells[k][1]
             c == cells[k][2]
             radius == 2
             distance == Abs(r - row) + Abs(c - col)
             weight == Max(1, radius + 1 - distance)
             stone == GetStone(b, r, c)
             next == IF r = row /\ c = col THEN acc
                     ELSE IF stone = playerStone
                     THEN [acc EXCEPT !.friendly = @ + weight]
                     ELSE IF stone = opponentStone
                     THEN [acc EXCEPT !.enemy = @ + weight]
                     ELSE [acc EXCEPT !.empty = @ + weight]
         IN  TerritoryLoop(b, row, col, playerStone, opponentStone, cells, k + 1, next)

\* Mutant: the loops scan one row and one column around the candidate only
TerritoryInfluenceRadiusOne(b, row, col, playerStone, opponentStone) ==
    LET radius == 1
    IN  TerritoryLoop(b, row, col, playerStone, opponentStone,
                      BoxCells(Max(0, row - radius), Min(b.height - 1, row + radius),
                               Max(0, col - radius), Min(b.width - 1, col + radius)),
                      1, [friendly |-> 0, enemy |-> 0, empty |-> 0])

TerritoryInfluence(b, row, col, playerStone, opponentStone) ==
    LET radius == 2
    IN  TerritoryLoop(b, row, col, playerStone, opponentStone,
                      BoxCells(Max(0, row - radius), Min(b.height - 1, row + radius),
                               Max(0, col - radius), Min(b.width - 1, col + radius)),
                      1, [friendly |-> 0, enemy |-> 0, empty |-> 0])

\* getTerritoryScore, in QUARTER points: (friendly - enemy) * 2 and empty * 0.5
GetTerritoryScore(b, row, col, playerStone, opponentStone) ==
    LET t == TerritoryInfluence(b, row, col, playerStone, opponentStone)
    IN  (IF t.friendly > t.enemy THEN (t.friendly - t.enemy) * 8 ELSE 0)
        + t.empty * 2

TotalStones(b) ==
    Cardinality({p \in DOMAIN b.stones : b.stones[p] # NONE})

\* getCornerDistance
GetCornerDistance(b, row, col) ==
    Min(Min(Abs(row - 0) + Abs(col - 0),
            Abs(row - 0) + Abs(col - (b.width - 1))),
        Min(Abs(row - (b.height - 1)) + Abs(col - 0),
            Abs(row - (b.height - 1)) + Abs(col - (b.width - 1))))

\* isStarPoint
IsStarPoint(b, row, col) ==
    IF b.width < 9 THEN FALSE
    ELSE LET size == b.width
             offset == IF size >= 19 THEN 3 ELSE 2
             center == size \div 2
             corners == {<<offset, offset>>, <<offset, size - 1 - offset>>,
                         <<size - 1 - offset, offset>>,
                         <<size - 1 - offset, size - 1 - offset>>}
             middle == IF size % 2 = 1 THEN {<<center, center>>} ELSE {}
             sides == IF size % 2 = 1 /\ size >= 19
                      THEN {<<offset, center>>, <<center, offset>>,
                            <<size - 1 - offset, center>>, <<center, size - 1 - offset>>}
                      ELSE {}
             starPoints == IF size >= 13 THEN corners \cup middle \cup sides ELSE {}
         IN  <<row, col>> \in starPoints

\* getOpeningScore (source points); gamePhase < 0.25 is 4 * totalStones < boardSize
GetOpeningScore(b, row, col, playerStone) ==
    LET totalStones == TotalStones(b)
        boardSize == b.width * b.height
    IN  IF 4 * totalStones < boardSize
        THEN IF b.width >= 9
             THEN (IF IsStarPoint(b, row, col) THEN 15 ELSE 0)
                  + (LET cornerDistance == GetCornerDistance(b, row, col)
                     IN  IF cornerDistance <= 3 THEN 8 - cornerDistance ELSE 0)
             ELSE LET centerRow == b.height \div 2
                      centerCol == b.width \div 2
                      distanceFromCenter == Abs(row - centerRow) + Abs(col - centerCol)
                  IN  IF distanceFromCenter <= 1 THEN 12
                      ELSE IF distanceFromCenter <= 2 THEN 6
                      ELSE 0
        ELSE 0

\* getCaptureScore (source points)
GetCaptureScore(b, row, col, playerStone, opponentStone) ==
    LET Term(i) ==
            LET a == Dir(row, col, i)
            IN  IF /\ IsValidPosition(b, a[1], a[2])
                   /\ GetStone(b, a[1], a[2]) = opponentStone
                   /\ CountLiberties(b, a[1], a[2], opponentStone) = 1
                THEN GetGroupSize(b, a[1], a[2], opponentStone) * 20
                ELSE 0
    IN  Term(1) + Term(2) + Term(3) + Term(4)

\* Mutant: the neighbours holding the opponent's stones are examined
GetDefenseScoreOfOpponent(b, row, col, playerStone, opponentStone) ==
    LET Term(i) ==
            LET a == Dir(row, col, i)
            IN  IF /\ IsValidPosition(b, a[1], a[2])
                   /\ GetStone(b, a[1], a[2]) = opponentStone
                THEN LET liberties == CountLiberties(b, a[1], a[2], opponentStone)
                     IN  IF liberties <= 2 THEN (3 - liberties) * 15 ELSE 0
                ELSE 0
    IN  Term(1) + Term(2) + Term(3) + Term(4)

\* getDefenseScore (source points)
GetDefenseScore(b, row, col, playerStone, opponentStone) ==
    LET Term(i) ==
            LET a == Dir(row, col, i)
            IN  IF /\ IsValidPosition(b, a[1], a[2])
                   /\ GetStone(b, a[1], a[2]) = playerStone
                THEN LET liberties == CountLiberties(b, a[1], a[2], playerStone)
                     IN  IF liberties <= 2 THEN (3 - liberties) * 15 ELSE 0
                ELSE 0
    IN  Term(1) + Term(2) + Term(3) + Term(4)

\* getConnectionScore (source points)
GetConnectionScore(b, row, col, playerStone) ==
    LET Term(i) ==
            LET a == Dir(row, col, i)
            IN  IF /\ IsValidPosition(b, a[1], a[2])
                   /\ GetStone(b, a[1], a[2]) = playerStone
                THEN 1 ELSE 0
        friendlyNeighbors == Term(1) + Term(2) + Term(3) + Term(4)
    IN  friendlyNeighbors * 8

\* evaluateMove without its last statement (the jitter), in QUARTER points:
\* capture * 3, defense * 2.5, blocking, territory, connection, opening,
\* position * 0.5
BaseScore(b, row, col, playerStone, opponentStone) ==
    LET captureScore == GetCaptureScore(b, row, col, playerStone, opponentStone)
        defenseScore == GetDefenseScore(b, row, col, playerStone, opponentStone)
    IN  (IF captureScore > 0 THEN captureScore * 12 ELSE 0)
        + (IF defenseScore > 0 THEN defenseScore * 10 ELSE 0)
        + GetBlockingScore(b, row, col, playerStone, opponentStone) * 4
        + GetTerritoryScore(b, row, col, playerStone, opponentStone)
        + GetConnectionScore(b, row, col, playerStone) * 4
        + GetOpeningScore(b, row, col, playerStone) * 4
        + GetPositionScore(b, row, col) * 2

---------------------------------------------------------------------------
(* npcAI.ts: calculateMove *)

NULL == [null |-> TRUE]

PlayerStone(color) == IF color = "black" THEN BLACK ELSE WHITE
OpponentStone(color) == IF color = "black" THEN WHITE ELSE BLACK

\* emptyPositions: the Empty cells in the order of the two nested for loops
EmptyPositions(b) ==
    SelectSeq(BoxCells(0, b.height - 1, 0, b.width - 1),
              LAMBDA p : IsEmpty(b, p[1], p[2]))

\* The jitter-free part of every evaluateMove call calculateMove makes
BaseScores(b, color) ==
    [p \in {q \in DOMAIN b.stones : b.stones[q] = NONE} |->
        BaseScore(b, p[1], p[2], PlayerStone(color), OpponentStone(color))]

\* Mutant: score >= bestScore, the last cell of the highest score wins
RECURSIVE BestLoopLastWins(_, _, _, _, _)
BestLoopLastWins(scores, jit, positions, k, best) ==
    IF k > Len(positions) THEN best
    ELSE LET pos == positions[k]
             score == scores[pos] + jit[pos]
             next == IF ~best.has \/ score >= best.score
                     THEN [has |-> TRUE, move |-> pos, score |-> score]
                     ELSE best
         IN  BestLoopLastWins(scores, jit, positions, k + 1, next)

\* The scoring loop of calculateMove; best = [has, move, score], has = FALSE
\* standing for bestMove = null, bestScore = -Infinity.  scores[pos] + jit[pos]
\* is the value of evaluateMove for pos: jit[pos] is the jitter that call draws.
RECURSIVE BestLoop(_, _, _, _, _)
BestLoop(scores, jit, positions, k, best) ==
    IF k > Len(positions) THEN best
    ELSE LET pos == positions[k]
             score == scores[pos] + jit[pos]
             next == IF ~best.has \/ score > best.score
                     THEN [has |-> TRUE, move |-> pos, score |-> score]
                     ELSE best
         IN  BestLoop(scores, jit, positions, k + 1, next)

\* Mutant: the row and the column of the best cell are exchanged
SelectMoveTransposed(b, scores, jit) ==
    LET emptyPositions == EmptyPositions(b)
    IN  IF Len(emptyPositions) = 0 THEN NULL
        ELSE LET best == BestLoop(scores, jit, emptyPositions, 1,
                                  [has |-> FALSE, move |-> <<0, 0>>, score |-> 0])
             IN  IF best.has
                 THEN [row |-> best.move[2] + 1, column |-> best.move[1] + 1]
                 ELSE NULL

\* Mutant: the first cell of the board is returned while a cell is Empty
SelectMoveFirstCell(b, scores, jit) ==
    IF Len(EmptyPositions(b)) = 0 THEN NULL ELSE [row |-> 1, column |-> 1]

\* calculateMove given the table of base scores and the jitter draws; the
\* result is NULL or a one-based [row, column]
SelectMove(b, scores, jit) ==
    LET emptyPositions == EmptyPositions(b)
    IN  IF Len(emptyPositions) = 0 THEN NULL
        ELSE LET best == BestLoop(scores, jit, emptyPositions, 1,
                                  [has |-> FALSE, move |-> <<0, 0>>, score |-> 0])
             IN  IF best.has
                 THEN [row |-> best.move[1] + 1, column |-> best.move[2] + 1]
                 ELSE NULL

\* calculateMove(board, color) under the jitter draws jit
CalculateMove(b, color, jit) == SelectMove(b, BaseScores(b, color), jit)

\* (Math.random() - 0.5) * 2 lies in [-1, 1).  In quarter points the draws are
\* -4 .. 4: base scores are multiples of half a point, so draws strictly
\* between two quarters decide nothing more, and score += jitter is rounded to
\* the nearest double, so the largest draw (1 - 2^-51) turns a score of three
\* points or more into exactly score + 1.
JitterMin == -4
JitterMax == 4
Jitter == JitterMin .. JitterMax

ZeroJitter(b) == [p \in DOMAIN b.stones |-> 0]

\* The draws that decide which cell wins: the score of a cell grows with its
\* own jitter and the scores of the others fall with theirs, so a cell is
\* selected under some draw exactly if it is selected under the draw that
\* gives it JitterMax and every other cell JitterMin.
Favour(b, p) == [q \in DOMAIN b.stones |-> IF q = p THEN JitterMax ELSE JitterMin]

JitterDraws(b) ==
    {ZeroJitter(b)} \cup {Favour(b, p) : p \in {q \in DOMAIN b.stones : b.stones[q] = NONE}}

\* Every value calculateMove(board, color) can return
CalculateMoveResults(b, color) ==
    LET scores == BaseScores(b, color)
    IN  {SelectMove(b, scores, jit) : jit \in JitterDraws(b)}

---------------------------------------------------------------------------
(* server.ts: helpers of the demo game simulation *)

\* The loop of getConnectedGroup: stack and group are sequences of cells
RECURSIVE GroupLoop(_, _, _, _, _)
GroupLoop(b, stoneType, stack, visited, group) ==
    IF Len(stack) = 0 THEN group
    ELSE LET p == stack[Len(stack)]
             rest == SubSeq(stack, 1, Len(stack) - 1)
         IN  IF p \in visited
             THEN GroupLoop(b, stoneType, rest, visited, group)
             ELSE LET seen == visited \cup {p}
                  IN  IF GetStone(b, p[1], p[2]) = stoneType
                      THEN LET around == [i \in 1 .. 4 |-> Dir(p[1], p[2], i)]
                               pushed == SelectSeq(around,
                                            LAMBDA q : /\ q[1] >= 0 /\ q[1] < b.height
                                                       /\ q[2] >= 0 /\ q[2] < b.width
                                                       /\ q \notin seen)
                           IN  GroupLoop(b, stoneType, rest \o pushed, seen,
                                         Append(group, p))
                      ELSE GroupLoop(b, stoneType, rest, seen, group)

\* Mutant: the group is the start stone alone
GetConnectedGroupOfStart(b, startRow, startCol, stoneType) ==
    << <<startRow, startCol>> >>

GetConnectedGroup(b, startRow, startCol, stoneType) ==
    GroupLoop(b, stoneType, << <<startRow, startCol>> >>, {}, << >>)

\* Mutant: only the first stone of the group is examined
HasNoLibertiesFirstStone(b, group) ==
    \A k \in 1 .. Min(1, Len(group)) : \A i \in 1 .. 4 :
        LET a == Dir(group[k][1], group[k][2], i)
        IN  \/ a[1] < 0 \/ a[1] >= b.height \/ a[2] < 0 \/ a[2] >= b.width
            \/ GetStone(b, a[1], a[2]) # 0

HasNoLiberties(b, group) ==
    \A k \in 1 .. Len(group) : \A i \in 1 .. 4 :
        LET a == Dir(group[k][1], group[k][2], i)
        IN  \/ a[1] < 0 \/ a[1] >= b.height \/ a[2] < 0 \/ a[2] >= b.width
            \/ GetStone(b, a[1], a[2]) # 0

\* Mutant: only the neighbour of the first direction is examined
DetectCapturesFirstNeighbour(b, justPlayedRow, justPlayedCol, playerColor) ==
    LET opponentStone == IF playerColor = "black" THEN 2 ELSE 1
        a == Dir(justPlayedRow, justPlayedCol, 1)
    IN  IF a[1] < 0 \/ a[1] >= b.height \/ a[2] < 0 \/ a[2] >= b.width
        THEN << >>
        ELSE IF GetStone(b, a[1], a[2]) = opponentStone
        THEN LET group == GetConnectedGroup(b, a[1], a[2], opponentStone)
             IN  IF HasNoLiberties(b, group) THEN group ELSE << >>
        ELSE << >>

\* detectCaptures: the captures array, groups appended in direction order
DetectCaptures(b, justPlayedRow, justPlayedCol, playerColor) ==
    LET opponentStone == IF playerColor = "black" THEN 2 ELSE 1
        Found(i) ==
            LET a == Dir(justPlayedRow, justPlayedCol, i)
            IN  IF a[1] < 0 \/ a[1] >= b.height \/ a[2] < 0 \/ a[2] >= b.width
                THEN << >>
                ELSE IF GetStone(b, a[1], a[2]) = opponentStone
                THEN LET group == GetConnectedGroup(b, a[1], a[2], opponentStone)
                     IN  IF HasNoLiberties(b, group) THEN group ELSE << >>
                ELSE << >>
    IN  Found(1) \o Found(2) \o Found(3) \o Found(4)

\* Mutant: the last captured stone is left on the board
RECURSIVE RemoveStonesButLast(_, _, _)
RemoveStonesButLast(b, capturedStones, k) ==
    IF k >= Len(capturedStones) THEN b
    ELSE RemoveStonesButLast(SetStone(b, capturedStones[k][1], capturedStones[k][2], 0),
                             capturedStones, k + 1)

\* capturedStones.forEach(([row, col]) => board.setStone(row, col, 0))
RECURSIVE RemoveStones(_, _, _)
RemoveStones(b, capturedStones, k) ==
    IF k > Len(capturedStones) THEN b
    ELSE RemoveStones(SetStone(b, capturedStones[k][1], capturedStones[k][2], 0),
                      capturedStones, k + 1)

UNDEFINED == [undefined |-> TRUE]

\* Mutant: the captured stone's zero-based coordinate is returned
DetectKoZeroBased(capturedStones) ==
    IF Len(capturedStones) # 1 THEN UNDEFINED
    ELSE [row |-> capturedStones[1][1], column |-> capturedStones[1][2]]

\* detectKo
DetectKo(capturedStones) ==
    IF Len(capturedStones) # 1 THEN UNDEFINED
    ELSE [row |-> capturedStones[1][1] + 1, column |-> capturedStones[1][2] + 1]

\* boardStateToString: character k of the model is character k - 1 of the string
BoardStateToString(b, ko) ==
    [k \in 1 .. b.width * b.height |->
        LET row == (k - 1) \div b.width
            col == (k - 1) % b.width
            stone == GetStone(b, row, col)
        IN  IF ko # UNDEFINED /\ ko.row = row + 1 /\ ko.column = col + 1 THEN "x"
            ELSE IF stone = BLACK THEN "B"
            ELSE IF stone = WHITE THEN "W"
            ELSE "."]

NoMoves == [row |-> -1, column |-> -1]

\* Mutant: the index into the board string is taken from the one-based move
GetNPCMoveWithKoOneBased(b, boardStateString, npcMove) ==
        IF npcMove = NULL THEN NoMoves
        ELSE LET moveIndex == npcMove.row * b.width + npcMove.column
             IN  IF moveIndex + 1 \in DOMAIN boardStateString
                    /\ boardStateString[moveIndex + 1] = "x"
                 THEN NoMoves
                 ELSE npcMove

\* getNPCMoveWithKo; npcMove is the value its call of NPCAI.calculateMove returns
GetNPCMoveWithKo(b, boardStateString, npcMove) ==
        IF npcMove = NULL THEN NoMoves
        ELSE LET moveIndex == (npcMove.row - 1) * b.width + (npcMove.column - 1)
             IN  IF boardStateString[moveIndex + 1] = "x" THEN NoMoves
                 ELSE npcMove

\* Lines 381-405 of simulateNPCGame: place the stone, detect and remove the
\* captures, detect the ko, build the move record
ApplyMove(b, npcMove, color, moveNumber) ==
    LET placed == SetStone(b, npcMove.row - 1, npcMove.column - 1,
                           IF color = "black" THEN 1 ELSE 2)
        capturedStones == DetectCaptures(placed, npcMove.row - 1, npcMove.column - 1, color)
        after == RemoveStones(placed, capturedStones, 1)
        newKoPosition == DetectKo(capturedStones)
    IN  [board |-> after,
         gameMove |-> [moveNumber |-> moveNumber,
                       row |-> npcMove.row,
                       column |-> npcMove.column,
                       color |-> color,
                       capturedStones |-> capturedStones,
                       koPosition |-> newKoPosition]]

\* Mutant: the colour to move is not switched
OtherKept(color) == color

\* currentColor === 'black' ? 'white' : 'black'
Other(color) == IF color = "black" THEN "white" ELSE "black"

---------------------------------------------------------------------------
(* server.ts: simulateNPCGame(boardSize, maxMoves), called by GET          *)
(* /api/demo-data with 3 <= size <= 19                                     *)

MinBoardSize == 3
MaxBoardSize == 3
MaxMoves == 8

\* const maxMoves = parseInt(req.query.maxMoves as string) || size * size:
\* an integer that is not 0; a negative one stands for all of them
MaxMovesArguments == {-1} \cup (1 .. MaxMoves)

Init ==
    /\ \E size \in MinBoardSize .. MaxBoardSize : board = NewBoard(size, size)
    /\ currentColor = "black"
    /\ moveCount = 0
    /\ maxMoves \in MaxMovesArguments
    /\ koPosition = UNDEFINED
    /\ moves = << >>
    /\ pc = "loop"
    /\ endReason = ""
    /\ result = NULL
    /\ request = UNDEFINED
    /\ page = UNDEFINED

\* One iteration of while (moveCount < maxMoves)
LoopIteration ==
    /\ pc = "loop"
    /\ moveCount < maxMoves
    /\ \E returned \in CalculateMoveResults(board, currentColor) :
        LET boardStateString == BoardStateToString(board, koPosition)
            npcMove == GetNPCMoveWithKo(board, boardStateString, returned)
        IN  /\ result' = npcMove
            /\ IF npcMove.row = -1 /\ npcMove.column = -1
               THEN /\ pc' = "after"
                    /\ UNCHANGED <<board, currentColor, moveCount, koPosition, moves>>
               ELSE LET done == ApplyMove(board, npcMove, currentColor, moveCount + 1)
                    IN  /\ board' = done.board
                        /\ moveCount' = moveCount + 1
                        /\ moves' = Append(moves, done.gameMove)
                        /\ koPosition' = done.gameMove.koPosition
                        /\ currentColor' = Other(currentColor)
                        /\ pc' = "loop"
    /\ UNCHANGED <<page, request, maxMoves, endReason>>

\* The loop condition fails
LoopExit ==
    /\ pc = "loop"
    /\ moveCount >= maxMoves
    /\ pc' = "after"
    /\ UNCHANGED <<page, request, board, currentColor, moveCount, maxMoves, koPosition, moves,
                   endReason, result>>

\* Lines 423-434: endReason and the returned DemoGame
Return ==
    /\ pc = "after"
    /\ endReason' = IF moveCount >= maxMoves THEN "maxMoves" ELSE "noValidMoves"
    /\ pc' = "done"
    /\ UNCHANGED <<page, request, board, currentColor, moveCount, maxMoves, koPosition, moves, result>>

Next == LoopIteration \/ LoopExit \/ Return

Spec == Init /\ [][Next]_vars

---------------------------------------------------------------------------
(* NPCAI.calculateMove as a function of its arguments: the boards the      *)
(* callers and the tests of tests/server.test.ts hand to it.               *)

\* board.setStone(row, col, stone) for each <<row, col, stone>> of placements
RECURSIVE WithStones(_, _, _)
WithStones(b, placements, k) ==
    IF k > Len(placements) THEN b
    ELSE WithStones(SetStone(b, placements[k][1], placements[k][2], placements[k][3]),
                    placements, k + 1)

\* 'should prefer corner positions on empty board'
EmptyBoard5 == NewBoard(5, 5)

\* 'should defend against captures'
DefenseBoard ==
    WithStones(NewBoard(5, 5),
               << <<1, 1, BLACK>>, <<0, 1, WHITE>>, <<1, 0, WHITE>>, <<2, 1, WHITE>> >>, 1)

\* 'should capture opponent stones when possible'
CaptureBoard ==
    WithStones(NewBoard(5, 5),
               << <<1, 1, WHITE>>, <<0, 1, BLACK>>, <<1, 0, BLACK>>, <<2, 1, BLACK>> >>, 1)

\* 'should return null when no moves available (full board)':
\* row + col % 2 === 0 ? BLACK : WHITE
FullBoard2 ==
    [width |-> 2, height |-> 2,
     stones |-> [p \in Cells(2, 2) |->
                    IF p[1] + (p[2] % 2) = 0 THEN BLACK ELSE WHITE]]

\* 'should handle rectangular board': new Board(3, 5)
RectBoard == NewBoard(3, 5)

\* 'should handle board with only one empty space'
OneEmptyBoard3 ==
    [width |-> 3, height |-> 3,
     stones |-> [p \in Cells(3, 3) |->
                    IF p = <<1, 1>> THEN NONE
                    ELSE IF (p[1] + p[2]) % 2 = 0 THEN BLACK ELSE WHITE]]

TestBoards ==
    {EmptyBoard5, DefenseBoard, CaptureBoard, FullBoard2, RectBoard, OneEmptyBoard3}

\* Every board of at most MaxCells cells, of any width and height
MaxCells == 6

Boards(w, h) ==
    {[width |-> w, height |-> h, stones |-> st] : st \in [Cells(w, h) -> Stones]}

BoardsUpTo(n) ==
    UNION {Boards(d[1], d[2]) : d \in {e \in (1 .. n) \X (1 .. n) : e[1] * e[2] <= n}}

InputBoards == BoardsUpTo(MaxCells) \cup TestBoards

MoveInit ==
    /\ board \in InputBoards
    /\ currentColor \in Colors
    /\ moveCount = 0
    /\ maxMoves = 1
    /\ koPosition = UNDEFINED
    /\ moves = << >>
    /\ pc = "call"
    /\ endReason = ""
    /\ result = NULL
    /\ request = UNDEFINED
    /\ page = UNDEFINED

\* Mutant: the candidate stone of the returned move is left on the board
CallCalculateMoveKeepingStone ==
    /\ pc = "call"
    /\ result' \in CalculateMoveResults(board, currentColor)
    /\ board' = IF result' = NULL THEN board
                ELSE SetStone(board, result'.row - 1, result'.column - 1,
                              PlayerStone(currentColor))
    /\ pc' = "returned"
    /\ UNCHANGED <<page, request, currentColor, moveCount, maxMoves, koPosition, moves, endReason>>

\* const move = NPCAI.calculateMove(board, color)
CallCalculateMove ==
    /\ pc = "call"
    /\ result' \in CalculateMoveResults(board, currentColor)
    /\ pc' = "returned"
    /\ UNCHANGED <<page, request, board, currentColor, moveCount, maxMoves, koPosition, moves, endReason>>

\* The caller applies the returned move as simulateNPCGame does
PlayReturnedMove ==
    /\ pc = "returned"
    /\ result # NULL
    /\ LET done == ApplyMove(board, result, currentColor, moveCount + 1)
       IN  /\ board' = done.board
           /\ moves' = Append(moves, done.gameMove)
           /\ koPosition' = done.gameMove.koPosition
    /\ moveCount' = moveCount + 1
    /\ pc' = "played"
    /\ UNCHANGED <<page, request, currentColor, maxMoves, endReason, result>>

MoveNext == CallCalculateMove \/ PlayReturnedMove

MoveSpec == MoveInit /\ [][MoveNext]_vars

---------------------------------------------------------------------------
(* NPCAI.countLiberties and getGroupSize as functions of the board: every  *)
(* occupied cell of the boards above and of every board of the smallest    *)
(* size the demo plays on.                                                 *)

GroupInit ==
    /\ board \in InputBoards \cup Boards(MinBoardSize, MinBoardSize)
    /\ currentColor = "black"
    /\ moveCount = 0
    /\ maxMoves = 1
    /\ koPosition = UNDEFINED
    /\ moves = << >>
    /\ pc = "count"
    /\ endReason = ""
    /\ result = NULL
    /\ request = UNDEFINED
    /\ page = UNDEFINED

Occupied(b) == {p \in DOMAIN b.stones : b.stones[p] # NONE}

\* this.countLiberties(board, row, col, stone) and this.getGroupSize(board,
\* row, col, stone) for every stone of the board, as getCaptureScore,
\* getDefenseScore and getBlockingScore call them
CountGroups ==
    /\ pc = "count"
    /\ result' = [p \in Occupied(board) |->
                    [liberties |-> CountLiberties(board, p[1], p[2], board.stones[p]),
                     groupSize |-> GetGroupSize(board, p[1], p[2], board.stones[p])]]
    /\ pc' = "counted"
    /\ UNCHANGED <<page, request, board, currentColor, moveCount, maxMoves, koPosition, moves, endReason>>

GroupNext == CountGroups

GroupSpec == GroupInit /\ [][GroupNext]_vars

---------------------------------------------------------------------------
(* Reference definitions the properties are stated with *)

Adjacent(p, q) == Abs(p[1] - q[1]) + Abs(p[2] - q[2]) = 1

\* The maximal 4-connected set of cells holding the stone of p that contains p
RECURSIVE GrowGroup(_, _, _)
GrowGroup(b, stone, S) ==
    LET T == S \cup {q \in DOMAIN b.stones :
                        b.stones[q] = stone /\ \E p \in S : Adjacent(p, q)}
    IN  IF T = S THEN S ELSE GrowGroup(b, stone, T)

GroupAt(b, p) == GrowGroup(b, b.stones[p], {p})

\* The distinct Empty cells orthogonally adjacent to a stone of G
LibertiesOf(b, G) ==
    {q \in DOMAIN b.stones : b.stones[q] = NONE /\ \E p \in G : Adjacent(p, q)}

StoneCount(b, stone) == Cardinality({p \in DOMAIN b.stones : b.stones[p] = stone})

Range(seq) == {seq[i] : i \in 1 .. Len(seq)}

\* C4: countLiberties on an occupied cell is the number of distinct Empty cells
\* orthogonally adjacent to the maximal 4-connected same-coloured group of the
\* cell, and it is 0 exactly when every in-bounds neighbour of every stone of
\* the group is a stone of the group or an opposing stone.
C4_CountLibertiesIsGroupLiberties ==
    pc = "counted" =>
        \A p \in Occupied(board) :
            LET G == GroupAt(board, p)
            IN  /\ result[p].liberties = Cardinality(LibertiesOf(board, G))
                /\ (result[p].liberties = 0) <=>
                       \A g \in G : \A q \in DOMAIN board.stones :
                           Adjacent(g, q) =>
                               \/ q \in G
                               \/ board.stones[q] \notin {NONE, board.stones[p]}

\* C4 witness: a group of two or more stones with a liberty that touches two
\* of its stones has been counted
C4_Witness ==
    /\ pc = "counted"
    /\ \E p \in Occupied(board) :
          LET G == GroupAt(board, p)
          IN  /\ Cardinality(G) >= 2
              /\ \E q \in LibertiesOf(board, G) :
                    Cardinality({g \in G : Adjacent(g, q)}) >= 2

---------------------------------------------------------------------------
(* Properties of the self-play loop (Spec) *)

\* A step of the loop that plays a move
MovePlayed == pc = "loop" /\ moveCount' = moveCount + 1

\* The board right after the placement of the move pushed by this step
PlacedBoard ==
    LET m == moves'[Len(moves')]
    IN  SetStone(board, m.row - 1, m.column - 1, PlayerStone(m.color))

\* The stones of the opposing groups orthogonally adjacent to the stone just
\* placed that have no liberty on the board right after the placement
DeadStones ==
    LET m == moves'[Len(moves')]
        at == <<m.row - 1, m.column - 1>>
        placed == PlacedBoard
    IN  UNION {GroupAt(placed, q) :
                 q \in {n \in DOMAIN placed.stones :
                          /\ Adjacent(at, n)
                          /\ placed.stones[n] = OpponentStone(m.color)
                          /\ LibertiesOf(placed, GroupAt(placed, n)) = {}}}

\* C1: when a placed stone leaves an adjacent opposing group without
\* liberties, every stone of that group is Empty after the move and is listed
\* in the move's capturedStones, and the number of opposing stones on the
\* board drops by exactly the number of stones of the captured groups.
C1_CapturingLaw ==
    [][MovePlayed =>
        LET m == moves'[Len(moves')]
            opp == OpponentStone(m.color)
        IN  /\ \A p \in DeadStones :
                  /\ board'.stones[p] = NONE
                  /\ p \in Range(m.capturedStones)
            /\ StoneCount(board', opp) = StoneCount(board, opp) - Cardinality(DeadStones)
       ]_vars

\* C1 witness: a move has captured a group of two or more stones
C1_Witness ==
    \E k \in 1 .. Len(moves) : Cardinality(Range(moves[k].capturedStones)) >= 2

\* C20: a move of the loop changes exactly these cells: the placed cell takes
\* the mover's colour, and the stones of the opposing groups adjacent to it
\* that have no liberty on the board right after the placement (all of them
\* judged on that one board) become Empty; every other cell, and so every
\* stone of the mover's colour, and the shape of the board are unchanged.
C20_MoveFrame ==
    [][MovePlayed =>
        LET m == moves'[Len(moves')]
            at == <<m.row - 1, m.column - 1>>
            dead == DeadStones
        IN  /\ board'.width = board.width /\ board'.height = board.height
            /\ DOMAIN board'.stones = DOMAIN board.stones
            /\ \A p \in DOMAIN board.stones :
                  board'.stones[p] =
                      IF p \in dead THEN NONE
                      ELSE IF p = at THEN PlayerStone(m.color)
                      ELSE board.stones[p]
       ]_vars

\* C20 witness: the last move captured two or more stones, and stones of the
\* mover other than the placed one are on the board
C20_Witness ==
    /\ moves # << >>
    /\ LET m == moves[Len(moves)]
       IN  /\ Len(m.capturedStones) >= 2
           /\ StoneCount(board, PlayerStone(m.color)) >= 3

\* C2: the koPosition of a move is present exactly when the move removed
\* exactly one stone from the board, it is then the one-based coordinate of
\* that stone, and the loop's koPosition after the move is the koPosition of
\* that move alone.
C2_KoLaw ==
    [][MovePlayed =>
        LET m == moves'[Len(moves')]
            placed == PlacedBoard
            removed == {p \in DOMAIN placed.stones :
                          placed.stones[p] # NONE /\ board'.stones[p] = NONE}
        IN  /\ (m.koPosition # UNDEFINED) <=> (Cardinality(removed) = 1)
            /\ m.koPosition # UNDEFINED =>
                  removed = {<<m.koPosition.row - 1, m.koPosition.column - 1>>}
            /\ koPosition' = m.koPosition
       ]_vars

\* C2 witness: a move that captured one stone and set a ko position was
\* followed by a move that captured nothing, and no ko position is left
C2_Witness ==
    /\ Len(moves) >= 2
    /\ moves[Len(moves) - 1].koPosition # UNDEFINED
    /\ Len(moves[Len(moves) - 1].capturedStones) = 1
    /\ moves[Len(moves)].capturedStones = << >>
    /\ koPosition = UNDEFINED

\* C3: while a ko position is set, the move getNPCMoveWithKo hands to the loop
\* is never the ko coordinate, and the stone of the next move is never placed
\* on the ko cell.
C3_KoCellNotPlayed ==
    [][pc = "loop" /\ moveCount < maxMoves /\ koPosition # UNDEFINED =>
        /\ result' # koPosition
        /\ MovePlayed =>
              LET m == moves'[Len(moves')]
              IN  ~(m.row = koPosition.row /\ m.column = koPosition.column)
       ]_vars

\* C3 witness: a ko position was set and the next turn was taken, by a move
\* elsewhere
C3_Witness ==
    /\ Len(moves) >= 2
    /\ moves[Len(moves) - 1].koPosition # UNDEFINED
    /\ moves[Len(moves)].moveNumber = moves[Len(moves) - 1].moveNumber + 1

---------------------------------------------------------------------------
(* Properties of NPCAI.calculateMove (MoveSpec) *)

EmptyCells(b) == {p \in DOMAIN b.stones : b.stones[p] = NONE}

\* C5: calculateMove returns null exactly when the board has no Empty cell;
\* otherwise a position with 1 <= row <= height and 1 <= column <= width whose
\* cell is Empty on the board, whatever the jitter.
C5_ReturnsEmptyCellOrNull ==
    pc = "returned" =>
        /\ (result = NULL) <=> (EmptyCells(board) = {})
        /\ result # NULL =>
              /\ 1 <= result.row /\ result.row <= board.height
              /\ 1 <= result.column /\ result.column <= board.width
              /\ <<result.row - 1, result.column - 1>> \in EmptyCells(board)

\* C5 witness: a move was returned on a board with stones that is taller than
\* wide, in a row whose number exceeds the width
C5_Witness ==
    /\ pc = "returned"
    /\ result # NULL
    /\ board.width < board.height
    /\ result.row > board.width
    /\ Occupied(board) # {}

\* C6: a call of calculateMove leaves the board's width, height and every cell
\* as they were, whether it returns a move or null.
C6_CalculateMoveReadOnly ==
    [][pc = "call" =>
        /\ board'.width = board.width
        /\ board'.height = board.height
        /\ \A p \in DOMAIN board.stones : board'.stones[p] = board.stones[p]
      ]_vars

\* C6 witness: a move was returned for a board that holds stones
C6_Witness ==
    /\ pc = "returned"
    /\ result # NULL
    /\ Occupied(board) # {}

\* C7: on the capture board of the tests, calculateMove for black returns the
\* one-based (2,3), for every jitter.
C7_CaptureScenario ==
    (pc = "returned" /\ board = CaptureBoard /\ currentColor = "black") =>
        result = [row |-> 2, column |-> 3]

\* C8: on the defence board of the tests, calculateMove for black returns the
\* one-based (2,3), for every jitter and with the jitter at zero.
C8_DefenseScenario ==
    (pc = "returned" /\ board = DefenseBoard /\ currentColor = "black") =>
        /\ result = [row |-> 2, column |-> 3]
        /\ CalculateMove(board, currentColor, ZeroJitter(board)) = [row |-> 2, column |-> 3]

\* C8 witness: calculateMove has returned for black on the defence board
C8_Witness ==
    /\ pc = "returned"
    /\ board = DefenseBoard
    /\ currentColor = "black"
    /\ CountLiberties(board, 1, 1, BLACK) = 1

\* C9: on an empty 5x5 board, calculateMove for black returns a position
\* whose row is 1 or 5 or whose column is 1 or 5.
C9_EmptyBoardCornerOrEdge ==
    (pc = "returned" /\ board = EmptyBoard5 /\ currentColor = "black") =>
        \/ result.row = 1 \/ result.row = 5
        \/ result.column = 1 \/ result.column = 5

RowMajorBefore(p, q) == p[1] < q[1] \/ (p[1] = q[1] /\ p[2] <= q[2])

\* The Empty cells of the highest score without jitter
BestCells(b, color) ==
    LET scores == BaseScores(b, color)
    IN  {p \in DOMAIN scores : \A q \in DOMAIN scores : scores[q] <= scores[p]}

\* C10: with the jitter at zero the result of calculateMove is determined by
\* the board and the colour: it is the first cell in row-major order among the
\* Empty cells of the highest score (null when there is none).
C10_ZeroJitterFirstMaximum ==
    LET r == CalculateMove(board, currentColor, ZeroJitter(board))
        best == BestCells(board, currentColor)
    IN  IF EmptyCells(board) = {} THEN r = NULL
        ELSE /\ r # NULL
             /\ <<r.row - 1, r.column - 1>> \in best
             /\ \A q \in best : RowMajorBefore(<<r.row - 1, r.column - 1>>, q)

\* C10 witness: a call returned, with the jitter at zero, the first of several
\* cells of the highest score
C10_Witness ==
    /\ pc = "returned"
    /\ Cardinality(BestCells(board, currentColor)) >= 2
    /\ Occupied(board) # {}
    /\ result = CalculateMove(board, currentColor, ZeroJitter(board))

---------------------------------------------------------------------------
(* influence.ts: numbers.                                                  *)
(*                                                                         *)
(* The influence values are the rationals the formulas of the code denote; *)
(* the rounding of IEEE doubles is not modelled.  A decimal parameter is a *)
(* fraction <<numerator, denominator>>.  Every influence value is kept as  *)
(* its numerator over one common denominator,                              *)
(*   decay.den^MaxDistanceOnBoards * occlusionFactor.den^MaxDistanceOnBoards *)
(*   * territoryThreshold.den,                                             *)
(* and a numerator, too large for a machine integer, is a sequence of      *)
(* Limbs digits of base LimbBase, least significant first.                 *)

Limbs == 5
LimbBase == 10000000

RECURSIVE IntLimbs(_, _)
IntLimbs(n, i) ==
    IF i > Limbs THEN << >>
    ELSE <<n % LimbBase>> \o IntLimbs(n \div LimbBase, i + 1)

\* The natural number n (below 2^31) as a numerator
Num(n) == IntLimbs(n, 1)

RECURSIVE TimesLimbs(_, _, _, _)
TimesLimbs(a, m, i, carry) ==
    IF i > Limbs THEN << >>
    ELSE LET t == a[i] * m + carry
         IN  <<t % LimbBase>> \o TimesLimbs(a, m, i + 1, t \div LimbBase)

\* a * m for a factor m of at most 200
Times(a, m) == TimesLimbs(a, m, 1, 0)

RECURSIVE PlusLimbs(_, _, _, _)
PlusLimbs(a, b, i, carry) ==
    IF i > Limbs THEN << >>
    ELSE LET t == a[i] + b[i] + carry
         IN  <<t % LimbBase>> \o PlusLimbs(a, b, i + 1, t \div LimbBase)

\* a + b
Plus(a, b) == PlusLimbs(a, b, 1, 0)

RECURSIVE MinusLimbs(_, _, _, _)
MinusLimbs(a, b, i, borrow) ==
    IF i > Limbs THEN << >>
    ELSE LET t == a[i] - b[i] - borrow
         IN  IF t < 0
             THEN <<t + LimbBase>> \o MinusLimbs(a, b, i + 1, 1)
             ELSE <<t>> \o MinusLimbs(a, b, i + 1, 0)

RECURSIVE LessLimbs(_, _, _)
LessLimbs(a, b, i) ==
    IF i = 0 THEN FALSE
    ELSE IF a[i] # b[i] THEN a[i] < b[i]
    ELSE LessLimbs(a, b, i - 1)

\* a < b
Less(a, b) == LessLimbs(a, b, Limbs)

\* a - b for numerators: a signed value [neg, mag]; zero is never negative
Minus(a, b) ==
    IF Less(a, b) THEN [neg |-> TRUE, mag |-> MinusLimbs(b, a, 1, 0)]
    ELSE [neg |-> FALSE, mag |-> MinusLimbs(a, b, 1, 0)]

\* v >= t and v <= -t, for a signed v and a numerator t
AtLeast(v, t) ==
    IF v.neg THEN t = Num(0) /\ v.mag = Num(0) ELSE ~Less(v.mag, t)
AtMostMinus(v, t) ==
    IF v.neg THEN ~Less(v.mag, t) ELSE t = Num(0) /\ v.mag = Num(0)

\* TRUE.  A loop tests it on the value it carries along, which makes TLC
\* compute that value at every step instead of at the end of the loop.
Evaluated(x) == x = x

\* a * m^n
RECURSIVE Power(_, _, _)
Power(a, m, n) == IF n <= 0 THEN a ELSE Power(Times(a, m), m, n - 1)

---------------------------------------------------------------------------
(* influence.ts *)

\* Example parameters: 0.82 = 41/50, 0.35 = 7/20, 1.2 = 6/5
DEFAULT_INFLUENCE_PARAMS ==
    [stoneStrength |-> 10,
     decay |-> <<41, 50>>,
     maxDistance |-> 12,
     occlusionFactor |-> <<7, 20>>,
     territoryThreshold |-> <<6, 5>>]

\* throw new Error(message)
Throw(message) == [error |-> message]
IsError(r) == DOMAIN r = {"error"}

\* The square boards computeInfluence is called on have at most this size
MaxInfluenceSize == 3

\* The largest Manhattan distance on such a board
MaxDistanceOnBoards == (MaxInfluenceSize - 1) * 2

\* The params argument of the calls: the defaults, no maxDistance, a short
\* maxDistance, a decay outside (0,1)
InfluenceParams ==
    {DEFAULT_INFLUENCE_PARAMS,
     [stoneStrength |-> 10, decay |-> <<41, 50>>, occlusionFactor |-> <<7, 20>>,
      territoryThreshold |-> <<6, 5>>],
     [DEFAULT_INFLUENCE_PARAMS EXCEPT !.maxDistance = 1],
     [DEFAULT_INFLUENCE_PARAMS EXCEPT !.decay = <<1, 1>>]}

\* The numbers of a params argument
Numbers(params) ==
    <<params.stoneStrength, params.decay, params.occlusionFactor,
      params.territoryThreshold>>

\* stoneStrength * decay^d * occlusionFactor^k as a numerator over the
\* common denominator, for every params argument, distance d and count k
ScaledTerms ==
    LET E == MaxDistanceOnBoards
    IN  [q \in {Numbers(params) : params \in InfluenceParams} |->
            [d \in 0 .. E |-> [k \in 0 .. E |->
                Power(Power(Power(Power(Times(Num(q[1]), q[4][2]),
                    q[2][1], d), q[2][2], E - d), q[3][1], k), q[3][2], E - k)]]]

\* params.stoneStrength * Math.pow(params.decay, d) * occ, occ being
\* occlusionFactor^k
ScaledTerm(params, d, k) == ScaledTerms[Numbers(params)][d][k]

\* territoryThreshold as a numerator over the common denominator
ScaledThresholds ==
    LET E == MaxDistanceOnBoards
    IN  [q \in {Numbers(params) : params \in InfluenceParams} |->
            Power(Power(Num(q[4][1]), q[2][2], E), q[3][2], E)]

ScaledThreshold(params) == ScaledThresholds[Numbers(params)]

\* Mutant: the larger of the two coordinate distances
manhattanChebyshev(ax, ay, bx, by) ==
    LET dx == ax - bx
        dy == ay - by
    IN  Max(IF dx < 0 THEN -dx ELSE dx, IF dy < 0 THEN -dy ELSE dy)

manhattan(ax, ay, bx, by) ==
    LET dx == ax - bx
        dy == ay - by
    IN  (IF dx < 0 THEN -dx ELSE dx) + (IF dy < 0 THEN -dy ELSE dy)

\* board[y][x] of a BoardInput: rows and cells are sequences, counted from 1
CellAt(cells, x, y) == cells[y + 1][x + 1]

\* The while loop of occlusionPenalty, from the position (x, y)

\* Mutant: only the stone's own cell is skipped, the target is examined
RECURSIVE OcclusionWalkCountingTarget(_, _, _, _, _, _, _, _, _)
OcclusionWalkCountingTarget(cells, sx, sy, tx, ty, opp, x, y, blocks) ==
    IF ~(x # tx \/ y # ty) THEN blocks
    ELSE LET nx == IF x # tx THEN (IF x < tx THEN x + 1 ELSE x - 1) ELSE x
             ny == IF x # tx THEN y
                   ELSE IF y # ty THEN (IF y < ty THEN y + 1 ELSE y - 1) ELSE y
         IN  IF nx = sx /\ ny = sy
             THEN OcclusionWalkCountingTarget(cells, sx, sy, tx, ty, opp, nx, ny, blocks)
             ELSE OcclusionWalkCountingTarget(cells, sx, sy, tx, ty, opp, nx, ny,
                      IF CellAt(cells, nx, ny) = opp THEN blocks + 1 ELSE blocks)

\* The while loop of occlusionPenalty, continued from the position (x, y)
\* with the opponent stones counted so far
RECURSIVE OcclusionWalk(_, _, _, _, _, _, _, _, _)
OcclusionWalk(cells, sx, sy, tx, ty, opp, x, y, blocks) ==
    IF ~(x # tx \/ y # ty) THEN blocks
    ELSE LET nx == IF x # tx THEN (IF x < tx THEN x + 1 ELSE x - 1) ELSE x
             ny == IF x # tx THEN y
                   ELSE IF y # ty THEN (IF y < ty THEN y + 1 ELSE y - 1) ELSE y
         IN  IF (nx = sx /\ ny = sy) \/ (nx = tx /\ ny = ty)
             THEN OcclusionWalk(cells, sx, sy, tx, ty, opp, nx, ny, blocks)
             ELSE OcclusionWalk(cells, sx, sy, tx, ty, opp, nx, ny,
                      IF CellAt(cells, nx, ny) = opp THEN blocks + 1 ELSE blocks)

\* The returned multiplier is Math.pow(occlusionFactor, blocks), or 1.0 when
\* blocks <= 0; it is represented by its exponent of occlusionFactor, 1.0
\* being the exponent 0.
occlusionPenalty(cells, size, sx, sy, tx, ty, stoneColor, occlusionFactor) ==
    LET opp == IF stoneColor = "B" THEN "W" ELSE "B"
        blocks == OcclusionWalk(cells, sx, sy, tx, ty, opp, sx, sy, 0)
    IN  IF blocks <= 0 THEN 0 ELSE blocks

OK == [ok |-> TRUE]

\* The first row, from row y on, that fails a check of assertBoard
RECURSIVE AssertRows(_, _, _)
AssertRows(cells, size, y) ==
    IF ~(y < size) THEN OK
    ELSE IF Len(cells[y + 1]) # size THEN Throw("board width must be size")
    ELSE IF \E x \in 0 .. size - 1 : CellAt(cells, x, y) \notin {"B", "W", "."}
    THEN Throw("invalid cell")
    ELSE AssertRows(cells, size, y + 1)

assertBoard(input) ==
    IF Len(input.board) # input.size THEN Throw("board height must be size")
    ELSE AssertRows(input.board, input.size, 0)

\* The stones array: the cells holding a stone, row by row, from cell i on
RECURSIVE CollectStones(_, _, _)
CollectStones(cells, size, i) ==
    IF i >= size * size THEN << >>
    ELSE LET x == i % size
             y == i \div size
             c == CellAt(cells, x, y)
         IN  (IF c = "B" \/ c = "W" THEN <<[x |-> x, y |-> y, c |-> c]>> ELSE << >>)
             \o CollectStones(cells, size, i + 1)

\* A size x size grid holding v in every cell
Grid(size, v) == [y \in 1 .. size |-> [x \in 1 .. size |-> v]]

\* for (const s of stones): the fields after the stones from the i-th on
\* have added their contributions
RECURSIVE Accumulate(_, _, _, _, _, _, _)
Accumulate(cells, size, params, maxD, stones, i, fields) ==
    IF i > Len(stones) THEN fields
    ELSE LET s == stones[i]
             minX == Max(0, s.x - maxD)
             maxX == Min(size - 1, s.x + maxD)
             minY == Max(0, s.y - maxD)
             maxY == Min(size - 1, s.y + maxD)
             Reached(x, y) ==
                 /\ y >= minY /\ y <= maxY /\ x >= minX /\ x <= maxX
                 /\ ~(manhattan(s.x, s.y, x, y) > maxD)
             contribution(x, y) ==
                 LET d == manhattan(s.x, s.y, x, y)
                     occ == occlusionPenalty(cells, size, s.x, s.y, x, y, s.c,
                                             params.occlusionFactor)
                 IN  ScaledTerm(params, d, occ)
             Added(grid) ==
                 [y \in 1 .. size |-> [x \in 1 .. size |->
                     IF Reached(x - 1, y - 1)
                     THEN Plus(grid[y][x], contribution(x - 1, y - 1))
                     ELSE grid[y][x]]]
         IN  Accumulate(cells, size, params, maxD, stones, i + 1,
                 IF s.c = "B" THEN [fields EXCEPT !.black = Added(@)]
                 ELSE [fields EXCEPT !.white = Added(@)])

\* Mutant: the white threshold is compared without its sign
TerritoryLabelUnsigned(c, v, territoryThreshold) ==
    IF c = "B" \/ c = "W" THEN c
    ELSE IF AtLeast(v, territoryThreshold) THEN "B"
    ELSE IF ~AtLeast(v, territoryThreshold) THEN "W"
    ELSE "."

\* Mutant: the label follows the net influence on occupied cells as well
TerritoryLabelOfNet(c, v, territoryThreshold) ==
    IF AtLeast(v, territoryThreshold) THEN "B"
    ELSE IF AtMostMinus(v, territoryThreshold) THEN "W"
    ELSE "."

\* territory[y][x] for the cell c = board[y][x] and v = net[y][x]
TerritoryLabel(c, v, territoryThreshold) ==
    IF c = "B" \/ c = "W" THEN c
    ELSE IF AtLeast(v, territoryThreshold) THEN "B"
    ELSE IF AtMostMinus(v, territoryThreshold) THEN "W"
    ELSE "."

\* a fraction q with q > 0 and q < 1; with q >= 0 and q <= 1
InOpenUnit(q) == q[1] * q[2] > 0 /\ Abs(q[1]) < Abs(q[2])
InClosedUnit(q) == q[1] * q[2] >= 0 /\ Abs(q[1]) <= Abs(q[2])

computeInfluence(input, params) ==
    IF assertBoard(input) # OK THEN assertBoard(input)
    ELSE IF ~InOpenUnit(params.decay)
    THEN Throw("params.decay must be in (0,1)")
    ELSE IF ~InClosedUnit(params.occlusionFactor)
    THEN Throw("params.occlusionFactor must be in [0,1]")
    ELSE
    LET size == input.size
        cells == input.board
        maxD == IF "maxDistance" \notin DOMAIN params THEN (size - 1) * 2
                ELSE params.maxDistance
        stones == CollectStones(cells, size, 0)
        fields == Accumulate(cells, size, params, maxD, stones, 1,
                      [black |-> Grid(size, Num(0)), white |-> Grid(size, Num(0))])
        net == [y \in 1 .. size |-> [x \in 1 .. size |->
                   Minus(fields.black[y][x], fields.white[y][x])]]
        threshold == ScaledThreshold(params)
        territory == [y \in 1 .. size |-> [x \in 1 .. size |->
                         TerritoryLabel(cells[y][x], net[y][x], threshold)]]
        Empties == {p \in (1 .. size) \X (1 .. size) : cells[p[1]][p[2]] = "."}
        Count(label) == Cardinality({p \in Empties : territory[p[1]][p[2]] = label})
    IN  [size |-> size,
         black |-> fields.black,
         white |-> fields.white,
         net |-> net,
         territory |-> territory,
         territoryCount |-> [B |-> Count("B"), W |-> Count("W"), neutral |-> Count(".")]]

---------------------------------------------------------------------------
(* influenceAdapter.ts *)

boardToInfluenceInput(b) ==
    [size |-> b.width,
     board |-> [row \in 1 .. b.height |-> [col \in 1 .. b.width |->
                   LET stone == GetStone(b, row - 1, col - 1)
                   IN  IF stone = NONE THEN "."
                       ELSE IF stone = BLACK THEN "B"
                       ELSE IF stone = WHITE THEN "W"
                       ELSE "."]]]

\* An Error thrown by computeInfluence leaves calculateInfluence as it is
calculateInfluence(b) ==
    LET computed == computeInfluence(boardToInfluenceInput(b), DEFAULT_INFLUENCE_PARAMS)
    IN  IF IsError(computed) THEN computed
        ELSE [blackInfluence |-> computed.black,
              whiteInfluence |-> computed.white,
              territory |-> [row \in 1 .. computed.size |-> [col \in 1 .. computed.size |->
                  LET cell == computed.territory[row][col]
                  IN  IF cell = "B" THEN 1 ELSE IF cell = "W" THEN 2 ELSE 0]]]

---------------------------------------------------------------------------
(* InfluenceAdapter.calculateInfluence and computeInfluence as functions   *)
(* of their arguments: every square board of up to MaxInfluenceSize rows   *)
(* holding up to MaxInfluenceStones stones, and the boards below.          *)

MaxInfluenceStones == 2

RECURSIVE BoardsWithStones(_, _, _)
BoardsWithStones(w, h, n) ==
    IF n = 0 THEN {NewBoard(w, h)}
    ELSE LET fewer == BoardsWithStones(w, h, n - 1)
         IN  fewer \cup {SetStone(b, p[1], p[2], c) :
                            b \in fewer, p \in Cells(w, h), c \in {BLACK, WHITE}}

\* 'should handle rectangular board': 3 wide, 5 tall
RectangularInfluenceBoard == WithStones(NewBoard(3, 5), <<<<2, 1, BLACK>>>>, 1)

\* A black stone between two white stones
SurroundedBoard ==
    WithStones(NewBoard(3, 3), <<<<1, 1, BLACK>>, <<0, 1, WHITE>>, <<1, 0, WHITE>>>>, 1)

\* Three white stones on the path from the black corner stone to the
\* opposite corner, and one black stone beside it
BlockedBoard ==
    WithStones(NewBoard(3, 3),
        <<<<0, 0, BLACK>>, <<0, 1, WHITE>>, <<0, 2, WHITE>>, <<1, 2, WHITE>>,
          <<1, 0, BLACK>>>>, 1)

\* The square boards, and the boards of other shapes holding one stone
InfluenceBoards ==
    UNION {BoardsWithStones(w, h, IF w = h THEN MaxInfluenceStones ELSE 1) :
              w \in 1 .. MaxInfluenceSize, h \in 1 .. MaxInfluenceSize}
    \cup {RectangularInfluenceBoard, SurroundedBoard, BlockedBoard}

InfluenceInit ==
    /\ board \in InfluenceBoards
    /\ currentColor = "black"
    /\ moveCount = 0
    /\ maxMoves = 1
    /\ koPosition = UNDEFINED
    /\ moves = << >>
    /\ pc = "call"
    /\ endReason = ""
    /\ result = NULL
    /\ request = UNDEFINED
    /\ page = UNDEFINED

\* const influence = InfluenceAdapter.calculateInfluence(parsedBoard)
CallCalculateInfluence ==
    /\ pc = "call"
    /\ result' = calculateInfluence(board)
    /\ pc' = "adapted"
    /\ UNCHANGED <<page, request, board, currentColor, moveCount, maxMoves, koPosition,
                   moves, endReason>>

\* computeInfluence(InfluenceAdapter.boardToInfluenceInput(board), params)
CallComputeInfluence ==
    /\ pc = "call"
    /\ \E params \in InfluenceParams :
          result' = [params |-> params,
                     input |-> boardToInfluenceInput(board),
                     returned |-> computeInfluence(boardToInfluenceInput(board), params)]
    /\ pc' = "computed"
    /\ UNCHANGED <<page, request, board, currentColor, moveCount, maxMoves, koPosition,
                   moves, endReason>>

InfluenceNext == CallCalculateInfluence \/ CallComputeInfluence

InfluenceSpec == InfluenceInit /\ [][InfluenceNext]_vars

---------------------------------------------------------------------------
(* Reference definitions for the influence properties *)

\* The cells strictly between a stone at (sx, sy) and a target (tx, ty) on
\* the path that runs along x first and along y afterwards
PathInterior(sx, sy, tx, ty) ==
    ({<<x, sy>> : x \in Min(sx, tx) .. Max(sx, tx)}
        \cup {<<tx, y>> : y \in Min(sy, ty) .. Max(sy, ty)})
    \ {<<sx, sy>>, <<tx, ty>>}

\* The number of stones of the other colour on that path
Blockers(b, s, t) ==
    Cardinality({p \in PathInterior(s[2], s[1], t[2], t[1]) :
                    GetStone(b, p[2], p[1]) \notin {NONE, GetStone(b, s[1], s[2])}})

Distance(s, t) == Abs(s[1] - t[1]) + Abs(s[2] - t[2])

\* The stones <<row, col>> of one colour within the distance maxD of t
StonesInReach(b, stone, t, maxD) ==
    {s \in DOMAIN b.stones : b.stones[s] = stone /\ Distance(s, t) <= maxD}

\* The sum over the stones S of stoneStrength * decay^d * occlusionFactor^k
RECURSIVE SumOfTerms(_, _, _, _)
SumOfTerms(params, b, S, t) ==
    IF S = {} THEN Num(0)
    ELSE LET s == CHOOSE s \in S : TRUE
         IN  Plus(ScaledTerm(params, Distance(s, t), Blockers(b, s, t)),
                  SumOfTerms(params, b, S \ {s}, t))

\* The sum over the stones S of stoneStrength * decay^d
RECURSIVE SumOfClearTerms(_, _, _)
SumOfClearTerms(params, S, t) ==
    IF S = {} THEN Num(0)
    ELSE LET s == CHOOSE s \in S : TRUE
         IN  Plus(ScaledTerm(params, Distance(s, t), 0),
                  SumOfClearTerms(params, S \ {s}, t))

\* maxDistance of a call
MaxDistanceOf(params, b) ==
    IF "maxDistance" \in DOMAIN params THEN params.maxDistance ELSE (b.width - 1) * 2

Computed == pc = "computed" /\ ~IsError(result.returned)
Adapted == pc = "adapted" /\ ~IsError(result)

---------------------------------------------------------------------------
(* C11: on an empty N x N board the black and the white influence grids    *)
(* are N x N and zero in every cell and the territory grid is N x N and    *)
(* Neutral (0, '.' inside computeInfluence) in every cell.                 *)
C11_EmptyBoardNoInfluence ==
    (board.width = board.height /\ board = NewBoard(board.width, board.height)) =>
        /\ pc = "adapted" =>
              result = [blackInfluence |-> Grid(board.width, Num(0)),
                        whiteInfluence |-> Grid(board.width, Num(0)),
                        territory |-> Grid(board.width, 0)]
        /\ (pc = "computed" /\ InOpenUnit(result.params.decay)) =>
              /\ ~IsError(result.returned)
              /\ result.returned.black = Grid(board.width, Num(0))
              /\ result.returned.white = Grid(board.width, Num(0))
              /\ result.returned.territory = Grid(board.width, ".")

C11_Witness ==
    /\ pc = "adapted"
    /\ board = NewBoard(3, 3)
    /\ Len(result.territory) = 3
    /\ \A row \in 1 .. 3 : result.territory[row] = <<0, 0, 0>>
    /\ \A row \in 1 .. 3 : \A col \in 1 .. 3 :
          result.blackInfluence[row][col] = Num(0)

C13_ContributionWithOcclusion ==
    Computed =>
        \A t \in DOMAIN board.stones :
            LET maxD == MaxDistanceOf(result.params, board)
            IN  /\ result.returned.black[t[1] + 1][t[2] + 1]
                      = SumOfTerms(result.params, board,
                                   StonesInReach(board, BLACK, t, maxD), t)
                /\ result.returned.white[t[1] + 1][t[2] + 1]
                      = SumOfTerms(result.params, board,
                                   StonesInReach(board, WHITE, t, maxD), t)

\* The black corner stone reaches the opposite corner past three white
\* stones; the black stone below it, along its own row, past one.
C13_Witness ==
    /\ Computed
    /\ result.params = DEFAULT_INFLUENCE_PARAMS
    /\ board = BlockedBoard
    /\ Blockers(board, <<0, 0>>, <<2, 2>>) = 3
    /\ Blockers(board, <<1, 0>>, <<2, 2>>) = 1
    /\ result.returned.black[3][3] = Plus(ScaledTerm(result.params, 4, 3),
                                          ScaledTerm(result.params, 3, 1))

(* C14: in the territory grid of calculateInfluence an occupied cell holds *)
(* the label of its stone (1 black, 2 white) whatever the net influence,   *)
(* and an Empty cell holds 1 when black - white >= territoryThreshold, 2   *)
(* when black - white <= -territoryThreshold, and 0 otherwise.             *)
C14_TerritoryLabels ==
    Adapted =>
        \A t \in DOMAIN board.stones :
            LET net == Minus(result.blackInfluence[t[1] + 1][t[2] + 1],
                             result.whiteInfluence[t[1] + 1][t[2] + 1])
                threshold == ScaledThreshold(DEFAULT_INFLUENCE_PARAMS)
            IN  result.territory[t[1] + 1][t[2] + 1] =
                    IF board.stones[t] = BLACK THEN 1
                    ELSE IF board.stones[t] = WHITE THEN 2
                    ELSE IF AtLeast(net, threshold) THEN 1
                    ELSE IF AtMostMinus(net, threshold) THEN 2
                    ELSE 0

\* The black stone keeps the label 1 under a net influence of 10 - 16.4; the
\* Empty cells around it hold the labels 2 and 0
C14_Witness ==
    /\ Adapted
    /\ board = SurroundedBoard
    /\ result.territory[2][2] = 1
    /\ AtMostMinus(Minus(result.blackInfluence[2][2], result.whiteInfluence[2][2]),
                   ScaledThreshold(DEFAULT_INFLUENCE_PARAMS))
    /\ result.territory[1][1] = 2
    /\ result.territory[3][3] = 0

(* C19: on a board of width W and height H, W # H, calculateInfluence      *)
(* returns a result, it does not fail, and the blackInfluence, the         *)
(* whiteInfluence and the territory grid of the result have W rows each.   *)
C19_RectangularBoardResult ==
    (pc = "adapted" /\ board.width # board.height) =>
        /\ ~IsError(result)
        /\ Len(result.blackInfluence) = board.width
        /\ Len(result.whiteInfluence) = board.width
        /\ Len(result.territory) = board.width

---------------------------------------------------------------------------
(* boardParser.ts: strings and numbers.                                    *)
(*                                                                         *)
(* A string is the sequence of its characters.  A number is NaN or a       *)
(* signed integer [neg, mag], mag a numerator as above (the integers met   *)
(* are far below 2^53, so a double holds them exactly).  An absent size    *)
(* and the empty string, both falsy, are the empty sequence.               *)

NaN == [nan |-> TRUE]

\* The non-negative integer n (below 2^31) as a number
Number(n) == [neg |-> FALSE, mag |-> Num(n)]

\* The value of a number known to be a small non-negative integer
IntOf(number) == number.mag[1]

DecimalDigits == <<"0", "1", "2", "3", "4", "5", "6", "7", "8", "9">>
IsDigit(ch) == \E i \in 1 .. 10 : DecimalDigits[i] = ch
DigitValue(ch) == (CHOOSE i \in 1 .. 10 : DecimalDigits[i] = ch) - 1

\* The quotient and the remainder of a numerator by m <= 10, from the
\* highest digit down
RECURSIVE DivLimbs(_, _, _, _)
DivLimbs(a, m, i, rem) ==
    IF i = 0 THEN << >>
    ELSE LET t == rem * LimbBase + a[i]
         IN  DivLimbs(a, m, i - 1, t % m) \o <<t \div m>>

RECURSIVE ModLimbs(_, _, _, _)
ModLimbs(a, m, i, rem) ==
    IF i = 0 THEN rem ELSE ModLimbs(a, m, i - 1, (rem * LimbBase + a[i]) % m)

Div(a, m) == DivLimbs(a, m, Limbs, 0)
Mod(a, m) == ModLimbs(a, m, Limbs, 0)

\* s.includes(ch) for a character ch
Includes(s, ch) == \E i \in 1 .. Len(s) : s[i] = ch

\* s.split(ch)
RECURSIVE Split(_, _)
Split(s, ch) ==
    IF ~Includes(s, ch) THEN <<s>>
    ELSE LET i == CHOOSE i \in 1 .. Len(s) :
                      s[i] = ch /\ \A j \in 1 .. i - 1 : s[j] # ch
         IN  <<SubSeq(s, 1, i - 1)>> \o Split(SubSeq(s, i + 1, Len(s)), ch)

\* s.trim(), the white space of the strings met being the blank
RECURSIVE Trim(_)
Trim(s) ==
    IF s # << >> /\ s[1] = " " THEN Trim(Tail(s))
    ELSE IF s # << >> /\ s[Len(s)] = " " THEN Trim(SubSeq(s, 1, Len(s) - 1))
    ELSE s

\* s.toUpperCase(), the lower-case letters of the strings met being b, w, x
ToUpperCase(s) ==
    [i \in 1 .. Len(s) |->
        IF s[i] = "b" THEN "B" ELSE IF s[i] = "w" THEN "W"
        ELSE IF s[i] = "x" THEN "X" ELSE s[i]]

\* The decimal digits of s from the i-th character on, after the value acc
RECURSIVE ParseDigits(_, _, _)
ParseDigits(s, i, acc) ==
    IF Evaluated(acc) /\ (i > Len(s) \/ ~IsDigit(s[i])) THEN acc
    ELSE ParseDigits(s, i + 1, Plus(Times(acc, 10), Num(DigitValue(s[i]))))

\* parseInt(s): leading white space, a sign, the longest prefix of decimal
\* digits; NaN without a digit.  (No string met starts with 0x.)
ParseInt(s) ==
    LET t == Trim(s)
        start == IF t # << >> /\ t[1] \in {"-", "+"} THEN 2 ELSE 1
    IN  IF start > Len(t) \/ ~IsDigit(t[start]) THEN NaN
        ELSE LET mag == ParseDigits(t, start, Num(0))
             IN  [neg |-> t[1] = "-" /\ mag # Num(0), mag |-> mag]

RECURSIVE DigitsOf(_)
DigitsOf(a) ==
    IF Less(a, Num(10)) THEN <<DecimalDigits[a[1] + 1]>>
    ELSE DigitsOf(Div(a, 10)) \o <<DecimalDigits[Mod(a, 10) + 1]>>

\* number.toString()
NumberToString(number) ==
    IF number = NaN THEN <<"N", "a", "N">>
    ELSE (IF number.neg THEN <<"-">> ELSE << >>) \o DigitsOf(number.mag)

---------------------------------------------------------------------------
(* The 32-bit integers of the operators >>, <<, & and |: the 32 bits in    *)
(* two's complement as Int32Pairs pairs of bits, lowest pair first.  All   *)
(* shift counts of the parser are even.                                    *)

Int32Pairs == 16

RECURSIVE LowPairs(_, _)
LowPairs(a, n) ==
    IF n = 0 THEN << >> ELSE <<Mod(a, 4)>> \o LowPairs(Div(a, 4), n - 1)

\* The pairs of 2^32 - x for the pairs of x: complement and add one
RECURSIVE AddOne(_, _, _)
AddOne(bits, i, carry) ==
    IF i > Len(bits) THEN << >>
    ELSE <<(bits[i] + carry) % 4>> \o AddOne(bits, i + 1, (bits[i] + carry) \div 4)

Negate(bits) == AddOne([i \in 1 .. Len(bits) |-> 3 - bits[i]], 1, 1)

\* ToInt32(number): NaN is 0, an integer is taken modulo 2^32
ToInt32(number) ==
    IF number = NaN THEN [i \in 1 .. Int32Pairs |-> 0]
    ELSE IF number.neg THEN Negate(LowPairs(number.mag, Int32Pairs))
    ELSE LowPairs(number.mag, Int32Pairs)

\* The value of pairs of bits: the pairs from the i-th down, after the value
\* acc of the higher pairs
RECURSIVE PairsValue(_, _, _)
PairsValue(bits, i, acc) ==
    IF Evaluated(acc) /\ i = 0 THEN acc
    ELSE PairsValue(bits, i - 1, Plus(Times(acc, 4), Num(bits[i])))

\* The number a 32-bit integer stands for: negative when bit 31 is set
Int32ToNumber(bits) ==
    IF bits[Int32Pairs] >= 2
    THEN [neg |-> TRUE, mag |-> PairsValue(Negate(bits), Int32Pairs, Num(0))]
    ELSE [neg |-> FALSE, mag |-> PairsValue(bits, Int32Pairs, Num(0))]

\* bits >> count: the count is taken modulo 32, the sign bit is copied in
ShiftRight(bits, count) ==
    LET k == (count % (2 * Int32Pairs)) \div 2
    IN  [i \in 1 .. Int32Pairs |->
            IF i + k <= Int32Pairs THEN bits[i + k]
            ELSE IF bits[Int32Pairs] >= 2 THEN 3 ELSE 0]

\* bits << count: the count is taken modulo 32, the high bits are lost
ShiftLeft(bits, count) ==
    LET k == (count % (2 * Int32Pairs)) \div 2
    IN  [i \in 1 .. Int32Pairs |-> IF i - k >= 1 THEN bits[i - k] ELSE 0]

\* a | b
BitOr(a, b) ==
    [i \in 1 .. Int32Pairs |->
        Max(a[i] % 2, b[i] % 2) + 2 * Max(a[i] \div 2, b[i] \div 2)]

---------------------------------------------------------------------------
(* boardParser.ts *)

\* parseSize: "N" or "WxH"
parseSize(size) ==
    IF Includes(size, "x")
    THEN LET parts == Split(size, "x")
         IN  [width |-> ParseInt(Trim(parts[1])), height |-> ParseInt(Trim(parts[2]))]
    ELSE LET n == ParseInt(Trim(size))
         IN  [width |-> n, height |-> n]

\* Array(n) takes a length that is a non-negative integer (below 2^32)
IsArrayLength(number) == number # NaN /\ ~number.neg

\* new Board(boardSize.width, boardSize.height): Array(height), and
\* Array(width) once for every row
NewBoardOfSize(boardSize) ==
    IF ~IsArrayLength(boardSize.height)
    THEN Throw("RangeError: Invalid array length")
    ELSE IF IntOf(boardSize.height) > 0 /\ ~IsArrayLength(boardSize.width)
    THEN Throw("RangeError: Invalid array length")
    ELSE IF IntOf(boardSize.height) = 0
    THEN [width |-> boardSize.width, height |-> 0, stones |-> << >>]
    ELSE NewBoard(IntOf(boardSize.width), IntOf(boardSize.height))

\* The stone of a pair of bits, in parseRowBigint
StoneOfBits(stoneBits) ==
    IF stoneBits = 0 THEN NONE
    ELSE IF stoneBits = 1 THEN BLACK
    ELSE IF stoneBits = 2 THEN WHITE
    ELSE NONE

\* The for loop of parseRowBigint from the column col on
RECURSIVE ParseRowBigintLoop(_, _, _, _, _)
ParseRowBigintLoop(b, row, rowValue, width, col) ==
    IF Evaluated(b) /\ ~(col < width) THEN b
    ELSE LET bitPosition == (width - 1 - col) * 2
             stoneBits == ShiftRight(ToInt32(rowValue), bitPosition)[1]
         IN  ParseRowBigintLoop(SetStone(b, row, col, StoneOfBits(stoneBits)),
                                row, rowValue, width, col + 1)

parseRowBigint(b, row, rowString, width) ==
    ParseRowBigintLoop(b, row, ParseInt(rowString), width, 0)

\* The stone of a cell string, in parseRowCells
StoneOfCell(cell) ==
    IF cell = <<"B">> THEN BLACK
    ELSE IF cell = <<"W">> THEN WHITE
    ELSE NONE

\* The for loop of parseRowCells from the column col on
RECURSIVE ParseRowCellsLoop(_, _, _, _, _)
ParseRowCellsLoop(b, row, cells, width, col) ==
    IF ~(col < Min(Len(cells), width)) THEN b
    ELSE ParseRowCellsLoop(
             SetStone(b, row, col, StoneOfCell(ToUpperCase(cells[col + 1]))),
             row, cells, width, col + 1)

parseRowCells(b, row, rowString, width) ==
    LET parts == Split(rowString, ",")
        cells == [i \in 1 .. Len(parts) |-> Trim(parts[i])]
    IN  ParseRowCellsLoop(b, row, cells, width, 0)

\* The for loop of parseNewFormat from the row on
RECURSIVE ParseNewRows(_, _, _, _)
ParseNewRows(b, rowStrings, boardSize, row) ==
    IF ~(row < Min(Len(rowStrings), IntOf(boardSize.height))) THEN b
    ELSE LET rowString == rowStrings[row + 1]
         IN  ParseNewRows(
                 IF Includes(rowString, ",")
                 THEN parseRowCells(b, row, rowString, IntOf(boardSize.width))
                 ELSE parseRowBigint(b, row, rowString, IntOf(boardSize.width)),
                 rowStrings, boardSize, row + 1)

parseNewFormat(boardData, size) ==
    LET parts == Split(boardData, ";")
        rowStrings == [i \in 1 .. Len(parts) |-> Trim(parts[i])]
        firstRow == rowStrings[1]
        boardSize ==
            IF size # << >> THEN parseSize(size)
            ELSE IF Includes(firstRow, ",")
            THEN [width |-> Number(Len(Split(firstRow, ","))),
                  height |-> Number(Len(rowStrings))]
            ELSE [width |-> Number(Len(rowStrings)), height |-> Number(Len(rowStrings))]
        b == NewBoardOfSize(boardSize)
    IN  IF IsError(b) THEN b ELSE ParseNewRows(b, rowStrings, boardSize, 0)

\* The for loop of parseLegacyFormat from the row on
RECURSIVE ParseLegacyRows(_, _, _, _)
ParseLegacyRows(b, rows, boardSize, row) ==
    IF ~(row < Min(Len(rows), IntOf(boardSize.height))) THEN b
    ELSE ParseLegacyRows(
             parseRowBigint(b, row, NumberToString(rows[row + 1]),
                            IntOf(boardSize.width)),
             rows, boardSize, row + 1)

parseLegacyFormat(boardData, size) ==
    LET parts == Split(boardData, ",")
        rows == [i \in 1 .. Len(parts) |-> ParseInt(Trim(parts[i]))]
        boardSize ==
            IF size # << >> THEN parseSize(size)
            ELSE [width |-> Number(Len(rows)), height |-> Number(Len(rows))]
        b == NewBoardOfSize(boardSize)
    IN  IF IsError(b) THEN b ELSE ParseLegacyRows(b, rows, boardSize, 0)

parseBoard(boardData, size) ==
    IF Includes(boardData, ";")
    THEN parseNewFormat(boardData, size)
    ELSE parseLegacyFormat(boardData, size)

\* The pair of bits of a stone, in encodeBoard
BitsOfStone(stone) ==
    IF stone = NONE THEN 0
    ELSE IF stone = BLACK THEN 1
    ELSE IF stone = WHITE THEN 2
    ELSE 0

\* The inner for loop of encodeBoard from the column col on; rowValue is a
\* number
RECURSIVE EncodeRow(_, _, _, _)
EncodeRow(b, row, col, rowValue) ==
    IF Evaluated(rowValue) /\ ~(col < b.width) THEN rowValue
    ELSE LET stoneBits == BitsOfStone(GetStone(b, row, col))
             bitPosition == (b.width - 1 - col) * 2
         IN  EncodeRow(b, row, col + 1,
                 Int32ToNumber(BitOr(ToInt32(rowValue),
                     ShiftLeft(ToInt32(Number(stoneBits)), bitPosition))))

encodeBoard(b) ==
    [row \in 1 .. b.height |-> EncodeRow(b, row - 1, 0, Number(0))]

---------------------------------------------------------------------------
(* BoardParser.parseBoard and encodeBoard as functions of the board and    *)
(* size strings of a request: rows of up to MaxSize columns holding one    *)
(* pair of bits that is not 00, every packed board and every board of      *)
(* cell symbols of up to MaxParseCells cells under every size string       *)
(* below, and the strings of the parser's tests.                           *)

\* The largest board size of the service
MaxSize == 19

MaxParseCells == 4

\* The packed integer of a row of pairs of bits, column 0 first
RECURSIVE PackRow(_, _, _)
PackRow(codes, i, acc) ==
    IF Evaluated(acc) /\ i > Len(codes) THEN acc
    ELSE PackRow(codes, i + 1, Plus(Times(acc, 4), Num(codes[i])))

\* strings.join(sep)
RECURSIVE Join(_, _)
Join(strings, sep) ==
    IF Len(strings) = 1 THEN strings[1]
    ELSE strings[1] \o <<sep>> \o Join(Tail(strings), sep)

PackedRowString(codes) ==
    NumberToString([neg |-> FALSE, mag |-> PackRow(codes, 1, Num(0))])

\* "WxH"
SizeString(w, h) ==
    NumberToString(Number(w)) \o <<"x">> \o NumberToString(Number(h))

\* One row of w columns, the pair of bits code in column c
WideRequests ==
    {[board |-> PackedRowString([i \in 1 .. w |-> IF i = c + 1 THEN code ELSE 0]),
      size |-> SizeString(w, 1)] :
        w \in 1 .. MaxSize, c \in 0 .. MaxSize - 1, code \in 1 .. 3}

\* The shapes of the small boards
SmallShapes ==
    {wh \in (1 .. MaxParseCells) \X (1 .. MaxParseCells) : wh[1] * wh[2] <= MaxParseCells}

\* The size strings of the small boards: absent, "1", "2", "3", "1x2", "2x1"
SmallSizes ==
    {<< >>, <<"1">>, <<"2">>, <<"3">>, SizeString(1, 2), SizeString(2, 1)}

\* The rows of w columns as packed integers
PackedRows(w) == {PackedRowString(codes) : codes \in [1 .. w -> 0 .. 3]}

\* The rows of w columns as comma-separated cells; X stands for the
\* symbols that are not B, W or '.'
CellRows(w) ==
    {Join(cells, ",") : cells \in [1 .. w -> {<<"B">>, <<"w">>, <<".">>, <<"X">>}]}

SmallLegacyRequests ==
    UNION {{[board |-> Join(rows, ","), size |-> size] :
                rows \in [1 .. wh[2] -> PackedRows(wh[1])], size \in SmallSizes} :
           wh \in SmallShapes}

SmallNewFormatRequests ==
    UNION {{[board |-> Join(rows, ";"), size |-> size] :
                rows \in [1 .. wh[2] -> CellRows(wh[1]) \cup {<<"8">>}],
                size \in SmallSizes} :
           wh \in {s \in SmallShapes : s[1] >= 2 /\ s[2] >= 2}}

\* '128,512,4,8,24' with '5'; 'B,W,.; 8; .,B,W' and ' B , W ; . , B '
\* without a size
TestRequests ==
    {[board |-> <<"1", "2", "8", ",", "5", "1", "2", ",", "4", ",", "8", ",", "2", "4">>,
      size |-> <<"5">>],
     [board |-> <<"B", ",", "W", ",", ".", ";", " ", "8", ";", " ", ".", ",", "B", ",", "W">>,
      size |-> << >>],
     [board |-> <<" ", "B", " ", ",", " ", "W", " ", ";", " ", ".", " ", ",", " ", "B", " ">>,
      size |-> << >>]}

ParserRequests ==
    WideRequests \cup SmallLegacyRequests \cup SmallNewFormatRequests \cup TestRequests

ParserInit ==
    /\ request \in ParserRequests
    /\ page = UNDEFINED
    /\ board = NULL
    /\ currentColor = "black"
    /\ moveCount = 0
    /\ maxMoves = 1
    /\ koPosition = UNDEFINED
    /\ moves = << >>
    /\ pc = "call"
    /\ endReason = ""
    /\ result = NULL

\* const parsedBoard = BoardParser.parseBoard(board, size)
CallParseBoard ==
    /\ pc = "call"
    /\ result' = parseBoard(request.board, request.size)
    /\ board' = IF IsError(result') THEN board ELSE result'
    /\ pc' = "parsed"
    /\ UNCHANGED <<page, request, currentColor, moveCount, maxMoves, koPosition, moves,
                   endReason>>

\* const encoded = BoardParser.encodeBoard(board)
CallEncodeBoard ==
    /\ pc = "parsed"
    /\ ~IsError(result)
    /\ result' = encodeBoard(board)
    /\ pc' = "encoded"
    /\ UNCHANGED <<page, request, board, currentColor, moveCount, maxMoves, koPosition,
                   moves, endReason>>

ParserNext == CallParseBoard \/ CallEncodeBoard

ParserSpec == ParserInit /\ [][ParserNext]_vars

---------------------------------------------------------------------------
(* Reference definitions the parser's properties are stated with *)

\* The request is in the legacy format: packed row integers between commas
LegacyRequest == ~Includes(request.board, ";")

\* The integers of a legacy board string
IntegersOf(boardData) ==
    LET parts == Split(boardData, ",")
    IN  [i \in 1 .. Len(parts) |-> ParseInt(Trim(parts[i]))]

\* The size a legacy request is parsed with: the size string, or n x n for
\* the n rows of a board string without one
LegacySize ==
    IF request.size # << >> THEN parseSize(request.size)
    ELSE [width |-> Number(Len(IntegersOf(request.board))),
          height |-> Number(Len(IntegersOf(request.board)))]

\* The pair of bits of v at offset 2 * k: floor(v / 4^k) mod 4
PairAt(v, k) == LowPairs(v, k + 1)[k + 1]

\* A legacy request of H rows for a W x H board, 1 <= W, H <= MaxSize, every
\* row an integer v with 0 <= v < 4^W
PackedBoardRequest ==
    /\ LegacyRequest
    /\ LET size == LegacySize
           rows == IntegersOf(request.board)
       IN  /\ size.width # NaN /\ size.height # NaN
           /\ ~size.width.neg /\ ~size.height.neg
           /\ Less(Num(0), size.width.mag) /\ Less(size.width.mag, Num(MaxSize + 1))
           /\ Less(Num(0), size.height.mag) /\ Less(size.height.mag, Num(MaxSize + 1))
           /\ Len(rows) = IntOf(size.height)
           /\ \A i \in 1 .. Len(rows) :
                 /\ rows[i] # NaN
                 /\ ~rows[i].neg
                 /\ Less(rows[i].mag, Power(Num(1), 4, IntOf(size.width)))

\* No row of the request holds the reserved pair 11
NoReservedPairs ==
    LET rows == IntegersOf(request.board)
    IN  \A i \in 1 .. Len(rows) : \A k \in 0 .. IntOf(LegacySize.width) - 1 :
            PairAt(rows[i].mag, k) # 3

\* The rows of a new-format request that are lists of cells
CellRowsOf(boardData) ==
    LET parts == Split(boardData, ";")
    IN  {Trim(parts[i]) : i \in {j \in 1 .. Len(parts) : Includes(parts[j], ",")}}

\* A new-format request with a cell that is not B, W or '.' once trimmed and
\* put in upper case
InvalidCellRequest ==
    /\ ~LegacyRequest
    /\ \E row \in CellRowsOf(request.board) :
          LET cells == Split(row, ",")
          IN  \E i \in 1 .. Len(cells) :
                  ToUpperCase(Trim(cells[i])) \notin {<<"B">>, <<"W">>, <<".">>}

\* A request with a size string W x H whose board string has not H rows, or
\* has a row of cells that has not W cells
CountMismatchRequest ==
    /\ request.size # << >>
    /\ LET size == parseSize(request.size)
           rows == Split(request.board, IF LegacyRequest THEN "," ELSE ";")
       IN  \/ Len(rows) # IntOf(size.height)
           \/ /\ ~LegacyRequest
              /\ \E row \in CellRowsOf(request.board) :
                    Len(Split(row, ",")) # IntOf(size.width)

\* C15: for a legacy board string X without the reserved pair 11, on every
\* board size up to 19x19, encodeBoard(parseBoard(X, size)) is the list of
\* the integers of X.
C15_RoundTrip ==
    (pc = "encoded" /\ PackedBoardRequest /\ NoReservedPairs) =>
        result = IntegersOf(request.board)

\* C16: for every width W from 1 to 19 and every row integer v with
\* 0 <= v < 4^W, parsing gives column c the stone of the pair of bits
\* floor(v / 4^(W-1-c)) mod 4: 0 Empty, 1 Black, 2 White, 3 Empty.
C16_DecodedPairs ==
    (pc = "parsed" /\ PackedBoardRequest) =>
        /\ ~IsError(result)
        /\ LET W == IntOf(LegacySize.width)
               rows == IntegersOf(request.board)
           IN  \A row \in 0 .. Len(rows) - 1 : \A c \in 0 .. W - 1 :
                   GetStone(result, row, c) =
                       StoneOfBits(PairAt(rows[row + 1].mag, W - 1 - c))

\* C17: parsing a board string with a comma-separated cell that is not B, W
\* or '.' (in either case, white space around it ignored) ends in an error;
\* it never returns a board.
C17_InvalidCellRejected ==
    (pc = "parsed" /\ InvalidCellRequest) => IsError(result)

\* C18: parsing a board string whose number of rows is not the declared
\* height, or with a row of cells whose number is not the declared width,
\* ends in an error; it never returns a board.
C18_CountMismatchRejected ==
    (pc = "parsed" /\ CountMismatchRequest) => IsError(result)

---------------------------------------------------------------------------
(* Further properties of the self-play loop (Spec) *)

\* The cell of the active ko position, if there is one
KoCells ==
    IF koPosition = UNDEFINED THEN {}
    ELSE {<<koPosition.row - 1, koPosition.column - 1>>}

\* C21: the game ends with endReason 'noValidMoves' only in a state where
\* the board has no Empty cell other than the active ko cell.
C21_NoValidMovesOnlyWithoutMoves ==
    (pc = "done" /\ endReason = "noValidMoves") => EmptyCells(board) \ KoCells = {}

\* C22: every move of the loop places its stone on a cell that is in bounds
\* and Empty at the moment of the placement, so that no stone on the board
\* is overwritten.
C22_PlacementOnEmptyCell ==
    [][MovePlayed =>
        LET m == moves'[Len(moves')]
        IN  /\ IsValidPosition(board, m.row - 1, m.column - 1)
            /\ board.stones[<<m.row - 1, m.column - 1>>] = NONE
            /\ StoneCount(PlacedBoard, PlayerStone(m.color))
                   = StoneCount(board, PlayerStone(m.color)) + 1
            /\ StoneCount(PlacedBoard, OpponentStone(m.color))
                   = StoneCount(board, OpponentStone(m.color))
       ]_vars

\* C22 witness: a stone was placed on a cell that an earlier move had played
\* on and that a capture had emptied since
C22_Witness ==
    \E j, k \in 1 .. Len(moves) :
        j < k /\ moves[j].row = moves[k].row /\ moves[j].column = moves[k].column

\* The groups of the board without a liberty, as sets of cells
GroupsWithoutLiberty(b) ==
    {G \in {GroupAt(b, p) : p \in Occupied(b)} : LibertiesOf(b, G) = {}}

\* C26, as claimed: after every move (placement and removal of the captured
\* stones) every group on the board, of either colour and the group of the
\* stone just placed included, has at least one liberty.
C26_EveryGroupHasLiberty ==
    moves # << >> => GroupsWithoutLiberty(board) = {}

\* C26, amended: after every move every group of the opposing colour
\* orthogonally adjacent to the stone just placed has at least one liberty;
\* a group without a liberty holds no stone of the opposing colour next to
\* the placed stone.
C26_AdjacentOpposingGroupsHaveLiberty ==
    moves # << >> =>
        LET m == moves[Len(moves)]
            at == <<m.row - 1, m.column - 1>>
        IN  \A G \in GroupsWithoutLiberty(board) :
                \A q \in G :
                    Adjacent(at, q) => board.stones[q] # OpponentStone(m.color)

\* C26 witness: the stone just placed stands next to an opposing group and
\* its own group has no liberty
C26_Witness ==
    /\ moves # << >>
    /\ LET m == moves[Len(moves)]
           at == <<m.row - 1, m.column - 1>>
       IN  /\ board.stones[at] = PlayerStone(m.color)
           /\ GroupAt(board, at) \in GroupsWithoutLiberty(board)
           /\ \E q \in DOMAIN board.stones :
                 Adjacent(at, q) /\ board.stones[q] = OpponentStone(m.color)

\* GET /api/demo-data?size=3&maxMoves=14: a game on the smallest board that
\* may go on after size * size moves
LongGameMoves == 14

LongGameInit ==
    /\ board = NewBoard(MinBoardSize, MinBoardSize)
    /\ currentColor = "black"
    /\ moveCount = 0
    /\ maxMoves = LongGameMoves
    /\ koPosition = UNDEFINED
    /\ moves = << >>
    /\ pc = "loop"
    /\ endReason = ""
    /\ result = NULL
    /\ request = UNDEFINED
    /\ page = UNDEFINED

LongGameSpec == LongGameInit /\ [][Next]_vars

\* C27: the capturedStones of a move lists every removed stone once: it has
\* no position twice, and its length is the number of stones the move
\* removed from the board.
C27_CapturedStonesListedOnce ==
    \A k \in 1 .. Len(moves) :
        LET captured == moves[k].capturedStones
        IN  Cardinality(Range(captured)) = Len(captured)

\* A step of the function as pc and moveCount show it: every step of Next
\* changes one of the two, and none is left once the function has returned
Advance ==
    /\ pc # "done"
    /\ pc' \in {"loop", "after", "done"}
    /\ moveCount' \in {moveCount, moveCount + 1}

\* simulateNPCGame runs on: a step of the function is taken when one can be
LiveSpec == Init /\ [][Next]_vars /\ WF_<<pc, moveCount>>(Advance)

\* A step can be taken until the function has returned: the steps of Next
\* are the steps fairness asks for
NextChangesPosition == [][<<pc, moveCount>>' # <<pc, moveCount>>]_vars

\* The function has returned
Returned == pc = "done"

\* An iteration of the loop either ends the game, leaving the board and the
\* moves alone, or applies exactly one move
IterationEndsOrMoves ==
    [][pc = "loop" =>
          \/ /\ pc' = "after"
             /\ board' = board /\ moves' = moves /\ moveCount' = moveCount
          \/ /\ pc' = "loop"
             /\ moveCount' = moveCount + 1
             /\ Len(moves') = Len(moves) + 1
             /\ SubSeq(moves', 1, Len(moves)) = moves
      ]_vars

\* totalMoves is the length of the move list, the colours alternate from
\* black on, and endReason is 'maxMoves' when totalMoves >= maxMoves and
\* 'noValidMoves' otherwise
MovesAndEndReason ==
    /\ moveCount = Len(moves)
    /\ \A k \in 1 .. Len(moves) :
          /\ moves[k].moveNumber = k
          /\ moves[k].color = IF k % 2 = 1 THEN "black" ELSE "white"
    /\ Returned =>
          /\ endReason = "maxMoves" <=> moveCount >= maxMoves
          /\ endReason = "noValidMoves" <=> moveCount < maxMoves

\* C28, as claimed: simulateNPCGame always returns; each iteration ends the
\* game or applies exactly one move; totalMoves never exceeds maxMoves and
\* is the length of the move list; colours alternate from black on;
\* endReason is 'maxMoves' exactly when totalMoves >= maxMoves, else
\* 'noValidMoves'.
C28_TerminatesWithinMaxMoves ==
    /\ <>Returned
    /\ IterationEndsOrMoves
    /\ [](MovesAndEndReason /\ moveCount <= maxMoves)

\* C28, amended: the same with totalMoves never above max(maxMoves, 0): a
\* negative maxMoves gives a game of 0 moves with endReason 'maxMoves'.
C28_TerminatesWithinMaxMovesOrZero ==
    /\ <>Returned
    /\ IterationEndsOrMoves
    /\ [](MovesAndEndReason /\ moveCount <= Max(maxMoves, 0))

\* C28 witness: a game of two or more moves has returned before maxMoves
\* with endReason 'noValidMoves'
C28_Witness ==
    /\ Returned
    /\ endReason = "noValidMoves"
    /\ moveCount >= 2
    /\ moveCount < maxMoves

---------------------------------------------------------------------------
(* The two implementations of groups and liberties (GroupSpec) *)

\* C29: on every board and for every occupied cell p, the server's
\* getConnectedGroup(p) has NPCAI.getGroupSize(p) stones and hasNoLiberties
\* of it is true exactly when NPCAI.countLiberties(p) is 0; so an opposing
\* group the AI counts with exactly 1 liberty next to an Empty candidate is
\* a group detectCaptures lists once the candidate is played.
C29_GroupImplementationsAgree ==
    pc = "counted" =>
        /\ \A p \in Occupied(board) :
              LET group == GetConnectedGroup(board, p[1], p[2], board.stones[p])
              IN  /\ Len(group) = result[p].groupSize
                  /\ Range(group) = GroupAt(board, p)
                  /\ HasNoLiberties(board, group) <=> (result[p].liberties = 0)
        /\ \A c \in EmptyCells(board) : \A color \in Colors :
              \A p \in Occupied(board) :
                  (/\ Adjacent(c, p)
                   /\ board.stones[p] = OpponentStone(color)
                   /\ result[p].liberties = 1) =>
                      LET placed == SetStone(board, c[1], c[2], PlayerStone(color))
                      IN  GroupAt(board, p)
                              \subseteq Range(DetectCaptures(placed, c[1], c[2], color))

\* C29 witness: the board counted holds a group of two or more stones with
\* exactly one liberty and a group without a liberty
C29_Witness ==
    /\ pc = "counted"
    /\ \E p, q \in Occupied(board) :
          /\ result[p].liberties = 1 /\ result[p].groupSize >= 2
          /\ result[q].liberties = 0 /\ result[q].groupSize >= 2

---------------------------------------------------------------------------
(* NPCAI.evaluateMove's features getCaptureScore, getTerritoryScore and    *)
(* getOpeningScore as functions of the board, the candidate cell and the   *)
(* colour: the boards above and boards with a side of 9, 13 or 19.         *)

\* Rows 0 .. rows - 1 of a w x h board filled with black stones
FilledRows(w, h, rows) ==
    [width |-> w, height |-> h,
     stones |-> [p \in Cells(w, h) |-> IF p[1] < rows THEN BLACK ELSE NONE]]

\* Boards of the sizes the opening feature tells apart, square and
\* rectangular, empty, with one stone, and filled by a quarter or more
OpeningBoards ==
    {NewBoard(d[1], d[2]) :
        d \in {<<9, 9>>, <<13, 13>>, <<19, 19>>, <<9, 3>>, <<3, 9>>, <<13, 5>>, <<5, 13>>}}
    \cup {SetStone(NewBoard(9, 3), 1, 4, WHITE), SetStone(NewBoard(13, 13), 6, 6, BLACK)}
    \cup {FilledRows(9, 9, 2), FilledRows(9, 9, 3), FilledRows(9, 3, 1)}

FeatureBoards == InputBoards \cup OpeningBoards

FeatureInit ==
    /\ board \in FeatureBoards
    /\ currentColor \in Colors
    /\ moveCount = 0
    /\ maxMoves = 1
    /\ koPosition = UNDEFINED
    /\ moves = << >>
    /\ pc = "evaluate"
    /\ endReason = ""
    /\ result = NULL
    /\ request = UNDEFINED
    /\ page = UNDEFINED

\* The features as evaluateMove computes them for every Empty cell of the
\* board (calculateMove, lines 24-31); territory with the three sums of
\* getTerritoryScore next to its score in quarter points
EvaluateFeatures ==
    /\ pc = "evaluate"
    /\ result' =
          [p \in {q \in DOMAIN board.stones : board.stones[q] = NONE} |->
              LET playerStone == PlayerStone(currentColor)
                  opponentStone == OpponentStone(currentColor)
              IN  [captureScore |->
                       GetCaptureScore(board, p[1], p[2], playerStone, opponentStone),
                   territory |->
                       TerritoryInfluence(board, p[1], p[2], playerStone, opponentStone),
                   territoryScore |->
                       GetTerritoryScore(board, p[1], p[2], playerStone, opponentStone),
                   openingScore |->
                       GetOpeningScore(board, p[1], p[2], playerStone)]]
    /\ pc' = "evaluated"
    /\ UNCHANGED <<page, request, board, currentColor, moveCount, maxMoves, koPosition,
                   moves, endReason>>

FeatureNext == EvaluateFeatures

FeatureSpec == FeatureInit /\ [][FeatureNext]_vars

---------------------------------------------------------------------------
(* Reference definitions the features' properties are stated with *)

\* The sum of the values of a function with a finite domain
RECURSIVE SumOf(_)
SumOf(f) ==
    IF DOMAIN f = {} THEN 0
    ELSE LET x == CHOOSE y \in DOMAIN f : TRUE
         IN  f[x] + SumOf([y \in DOMAIN f \ {x} |-> f[y]])

ManhattanDistance(p, q) == Abs(p[1] - q[1]) + Abs(p[2] - q[2])

\* The distinct groups of a stone that are orthogonally adjacent to the cell
\* p and have exactly one liberty
GroupsInAtari(b, p, stone) ==
    {GroupAt(b, q) :
        q \in {n \in DOMAIN b.stones :
                 /\ Adjacent(p, n)
                 /\ b.stones[n] = stone
                 /\ Cardinality(LibertiesOf(b, GroupAt(b, n))) = 1}}

\* The cells of the board within Manhattan distance r of p
WithinManhattan(b, p, r) == {q \in DOMAIN b.stones : ManhattanDistance(p, q) <= r}

\* The cells of the board at most r rows and at most r columns away from p
WithinSquare(b, p, r) ==
    {q \in DOMAIN b.stones : Abs(p[1] - q[1]) <= r /\ Abs(p[2] - q[2]) <= r}

\* The weights max(1, 3 - distance) of the cells of a region, p excluded,
\* that hold a given stone
WeightOf(b, p, region, stone) ==
    SumOf([q \in {c \in region \ {p} : b.stones[c] = stone} |->
              Max(1, 3 - ManhattanDistance(p, q))])

\* The friendly, enemy and empty weights of a candidate p over a region
TerritoryOver(b, p, region, color) ==
    [friendly |-> WeightOf(b, p, region, PlayerStone(color)),
     enemy |-> WeightOf(b, p, region, OpponentStone(color)),
     empty |-> WeightOf(b, p, region, NONE)]

\* The opening feature with the test of the board size on min(width, height)
OpeningByShorterSide(b, row, col) ==
    IF 4 * TotalStones(b) < b.width * b.height
    THEN IF Min(b.width, b.height) >= 9
         THEN (IF IsStarPoint(b, row, col) THEN 15 ELSE 0)
              + (IF GetCornerDistance(b, row, col) <= 3
                 THEN 8 - GetCornerDistance(b, row, col) ELSE 0)
         ELSE LET d == ManhattanDistance(<<row, col>>, <<b.height \div 2, b.width \div 2>>)
              IN  IF d <= 1 THEN 12 ELSE IF d <= 2 THEN 6 ELSE 0
    ELSE 0

\* C23: the capture feature of a candidate is 20 times the sum of the sizes
\* of the distinct opposing groups next to it that have exactly 1 liberty,
\* each group counted once however many of the candidate's neighbours it
\* holds.
C23_CaptureFeature ==
    pc = "evaluated" =>
        \A p \in DOMAIN result :
            result[p].captureScore =
                20 * SumOf([G \in GroupsInAtari(board, p, OpponentStone(currentColor)) |->
                               Cardinality(G)])

\* C24, as claimed: the friendly, enemy and empty weights of the territory
\* feature are summed over the cells within Manhattan distance 2 of the
\* candidate, the candidate excluded, each with weight max(1, 3 - distance);
\* cells at Manhattan distance 3 or more add nothing.
C24_TerritoryWithinManhattanRadius ==
    pc = "evaluated" =>
        \A p \in DOMAIN result :
            result[p].territory =
                TerritoryOver(board, p, WithinManhattan(board, p, 2), currentColor)

\* C24, amended: the weights are summed over the cells at most 2 rows and at
\* most 2 columns away from the candidate, the candidate excluded, each with
\* weight max(1, 3 - Manhattan distance), so that the cells of that square
\* at Manhattan distance 3 and 4 add weight 1 each; cells outside the square
\* add nothing, and the score is 2 * (friendly - enemy) when positive plus
\* 0.5 * empty.
C24_TerritoryWithinSquare ==
    pc = "evaluated" =>
        \A p \in DOMAIN result :
            LET t == TerritoryOver(board, p, WithinSquare(board, p, 2), currentColor)
            IN  /\ result[p].territory = t
                /\ result[p].territoryScore =
                       (IF t.friendly > t.enemy THEN 8 * (t.friendly - t.enemy) ELSE 0)
                       + 2 * t.empty

\* C24 witness: a candidate has been evaluated with a friendly stone, of
\* weight 1, at Manhattan distance 3 or more
C24_Witness ==
    /\ pc = "evaluated"
    /\ \E p \in DOMAIN result : \E q \in WithinSquare(board, p, 2) :
          /\ ManhattanDistance(p, q) >= 3
          /\ board.stones[q] = PlayerStone(currentColor)
          /\ result[p].territory.friendly >= 1

\* C25: the opening feature is 0 unless occupied cells / (width * height) is
\* below 0.25; when it is, the star-point and corner rewards are used
\* exactly when min(width, height) >= 9 and the centre reward exactly when
\* min(width, height) < 9, also on boards with one side only of 9 or more.
C25_OpeningFeature ==
    pc = "evaluated" =>
        \A p \in DOMAIN result :
            result[p].openingScore = OpeningByShorterSide(board, p[1], p[2])

---------------------------------------------------------------------------
(* The demo page's replay controls (README.md, "Game Display Implementation"). *)
(* page holds the script's variables and, of its window, the interval       *)
(* timers that are active (timers), the last id setInterval returned        *)
(* (lastTimerId) and the number of control events the user has caused       *)
(* (presses).  playbackInterval is 0 for null: an id is a positive integer. *)

MaxTotalMoves == 3
MaxPresses == 4

\* The values of the speed slider, in milliseconds
SliderValues == {500, 1000, 2000}

\* Mutant: the interval is forgotten without clearInterval
StopPlaybackKeepTimer(pg) ==
    [pg EXCEPT !.isPlaying = FALSE, !.playbackInterval = 0]

\* stopPlayback
StopPlayback(pg) ==
    LET stopped == [pg EXCEPT !.isPlaying = FALSE]
    IN  IF stopped.playbackInterval # 0
        THEN [stopped EXCEPT !.timers = @ \ {stopped.playbackInterval},
                             !.playbackInterval = 0]
        ELSE stopped

\* startPlayback
StartPlayback(pg) ==
    IF pg.currentMoveIndex >= pg.gameData.totalMoves THEN pg
    ELSE [pg EXCEPT !.isPlaying = TRUE,
                    !.playbackInterval = pg.lastTimerId + 1,
                    !.timers = @ \cup {pg.lastTimerId + 1},
                    !.lastTimerId = @ + 1]

\* goToFirstMove
GoToFirstMove(pg) == [pg EXCEPT !.currentMoveIndex = 0]

\* goToPreviousMove
GoToPreviousMove(pg) ==
    IF pg.currentMoveIndex > 0 THEN [pg EXCEPT !.currentMoveIndex = @ - 1] ELSE pg

\* goToNextMove
GoToNextMove(pg) ==
    LET moved == IF pg.currentMoveIndex < pg.gameData.totalMoves
                 THEN [pg EXCEPT !.currentMoveIndex = @ + 1]
                 ELSE pg
    IN  IF moved.currentMoveIndex >= moved.gameData.totalMoves /\ moved.isPlaying
        THEN StopPlayback(moved)
        ELSE moved

\* goToLastMove
GoToLastMove(pg) == [pg EXCEPT !.currentMoveIndex = pg.gameData.totalMoves]

\* togglePlayback
TogglePlayback(pg) == IF pg.isPlaying THEN StopPlayback(pg) ELSE StartPlayback(pg)

\* updatePlaybackSpeed with the slider at value
UpdatePlaybackSpeed(pg, value) ==
    LET set == [pg EXCEPT !.playbackSpeed = value]
    IN  IF set.isPlaying THEN StartPlayback(StopPlayback(set)) ELSE set

\* The page after loadGameData has stored a game of totalMoves moves
LoadedPage(totalMoves) ==
    [gameData |-> [totalMoves |-> totalMoves],
     currentMoveIndex |-> totalMoves,
     isPlaying |-> FALSE,
     playbackInterval |-> 0,
     playbackSpeed |-> 1000,
     timers |-> {},
     lastTimerId |-> 0,
     presses |-> 0]

ReplayInit ==
    /\ page \in {LoadedPage(n) : n \in 0 .. MaxTotalMoves}
    /\ board = NewBoard(MinBoardSize, MinBoardSize)
    /\ currentColor = "black"
    /\ moveCount = 0
    /\ maxMoves = 1
    /\ koPosition = UNDEFINED
    /\ moves = << >>
    /\ pc = "page"
    /\ endReason = ""
    /\ result = NULL
    /\ request = UNDEFINED

\* The user causes one more event of a control
Pressed(pg) == [pg EXCEPT !.presses = @ + 1]

PageUnchanged ==
    UNCHANGED <<board, currentColor, moveCount, maxMoves, koPosition, moves, pc,
                endReason, result, request>>

\* A click of a button that updatePlaybackControls has not disabled
FirstMoveClick ==
    /\ pc = "page" /\ page.presses < MaxPresses
    /\ page.currentMoveIndex # 0
    /\ page' = GoToFirstMove(Pressed(page))
    /\ PageUnchanged

PrevMoveClick ==
    /\ pc = "page" /\ page.presses < MaxPresses
    /\ page.currentMoveIndex # 0
    /\ page' = GoToPreviousMove(Pressed(page))
    /\ PageUnchanged

PlayPauseClick ==
    /\ pc = "page" /\ page.presses < MaxPresses
    /\ page.currentMoveIndex < page.gameData.totalMoves
    /\ page' = TogglePlayback(Pressed(page))
    /\ PageUnchanged

NextMoveClick ==
    /\ pc = "page" /\ page.presses < MaxPresses
    /\ page.currentMoveIndex < page.gameData.totalMoves
    /\ page' = GoToNextMove(Pressed(page))
    /\ PageUnchanged

LastMoveClick ==
    /\ pc = "page" /\ page.presses < MaxPresses
    /\ page.currentMoveIndex < page.gameData.totalMoves
    /\ page' = GoToLastMove(Pressed(page))
    /\ PageUnchanged

\* An input event of the speed slider
SpeedInput ==
    /\ pc = "page" /\ page.presses < MaxPresses
    /\ \E value \in SliderValues : page' = UpdatePlaybackSpeed(Pressed(page), value)
    /\ PageUnchanged

\* An active interval timer fires: its callback calls goToNextMove
IntervalTick ==
    /\ pc = "page"
    /\ \E t \in page.timers : page' = GoToNextMove(page)
    /\ PageUnchanged

ReplayNext ==
    \/ FirstMoveClick \/ PrevMoveClick \/ PlayPauseClick \/ NextMoveClick
    \/ LastMoveClick \/ SpeedInput \/ IntervalTick

\* The timers keep firing while one is active
ReplaySpec == ReplayInit /\ [][ReplayNext]_vars /\ WF_vars(IntervalTick)

\* currentMoveIndex is within 0 .. totalMoves, at most one interval timer is
\* active, and isPlaying is true exactly when a timer is active
ReplayInvariant ==
    /\ page.currentMoveIndex \in 0 .. page.gameData.totalMoves
    /\ Cardinality(page.timers) <= 1
    /\ page.isPlaying <=> page.timers # {}

\* Playback has stopped at the last move
StoppedAtLastMove ==
    /\ ~page.isPlaying
    /\ page.timers = {}
    /\ page.playbackInterval = 0
    /\ page.currentMoveIndex = page.gameData.totalMoves

\* C30: once playback is started with currentMoveIndex < totalMoves and the
\* timer keeps firing, playback stops with isPlaying false, the interval
\* cleared and currentMoveIndex = totalMoves when the user causes no further
\* event; under every interleaving of ticks and events of the controls
\* currentMoveIndex is within 0 .. totalMoves, at most one interval timer is
\* active, and isPlaying is true exactly when a timer is active.
C30_PlaybackStopsAtLastMove ==
    /\ []ReplayInvariant
    /\ (page.isPlaying /\ page.presses = MaxPresses) ~> StoppedAtLastMove

\* C30 witness: playback runs on its second interval timer before the last
\* move and the user causes no further event
C30_Witness ==
    /\ pc = "page"
    /\ page.isPlaying
    /\ page.playbackInterval >= 2
    /\ page.currentMoveIndex < page.gameData.totalMoves
    /\ page.presses = MaxPresses

====
